---- MODULE Spec2Model ----
(***************************************************************************)
(* Aevum: redraw scheduling of the Wayland window, the alarm event bridge  *)
(* between the DBus worker thread and the calloop presentation loop, and   *)
(* the views the window aggregates its dirtiness from.                     *)
(*                                                                         *)
(* Handlers are written as operators on records (one record per Rust       *)
(* struct) so that a handler's calls compose as in the source; an action   *)
(* applies a whole handler to the state and carries out the effects the    *)
(* handler issued on the compositor, the alarm store and the audio server. *)
(* Lengths are physical pixels; f64 scroll offsets and velocities are      *)
(* fixed-point numbers with FP units per pixel.                            *)
(***************************************************************************)
EXTENDS Integers, Sequences, FiniteSets, TLC

VARIABLES
    window,         \* Window and the views it owns (src/ui/window.rs)
    frame_pending,  \* compositor: requested frame callbacks not yet delivered
    touching,       \* a touch sequence is in progress (down seen, up not yet)
    finger,         \* logical position of the touch point last reported
    n_inputs,       \* events the environment delivered so far
    clock,          \* Instant::now(), in velocity intervals since the oldest baseline
    config,         \* State::config, the configuration last loaded
    worker,         \* the DBus listener thread: "new" | "next" | "failed" | "exited"
    channel,        \* messages in flight on the calloop channel
    tx_alive,       \* the channel's sender has not been dropped
    subscriber,     \* the Subscriber: the alarms it held when it was constructed
    produced,       \* events the subscriber produced that were not handled yet
    terminated,     \* State::terminated
    loop_pc,        \* presentation loop: "dispatch" | "exited"
    late_dispatches,\* dispatch() calls entered with the termination flag set
    first_handled,  \* the first message the channel source's callback was given
    op,             \* the handler that ran last and what it was given
    tasks,          \* store tasks spawned on the task pool: pending, and errors logged
    pa,             \* AlarmSound::play(): its position, the server's replies, its effects
    sv,             \* a ScrollVelocity on its own: the calls made on it, what they did
    sel,            \* a CreateAlarm view on its own: its wheels, the call made last
    pressed         \* where the touch last pressed began: the view shown, the point

vars == <<window, frame_pending, touching, finger, n_inputs, clock, config, worker,
          channel, tx_alive, subscriber, produced, terminated, loop_pc,
          late_dispatches, first_handled, op, tasks, pa, sv, sel, pressed>>

\* The parts of the program that are run on their own.
unit_vars == <<sv, sel, pressed>>

----------------------------------------------------------------------------
(* Bounds of the model.                                                    *)

MaxInputs == 3      \* events of the user, the compositor, the loader and the daemon
MaxClock == 1       \* velocity intervals the clock runs ahead of the oldest baseline
MaxPending == 3     \* frame requests outstanding at once, at most
MaxWait == 3        \* dispatch iterations of the connection wait, at most
MaxStep == 2        \* velocity intervals between two calls of apply(), at most
MaxTaps == 6        \* events of a run in which an alarm rings twice
MaxIdle == 2        \* calls of apply() after one set() with no time elapsed, at most

----------------------------------------------------------------------------
(* Numbers.                                                                *)

FP == 16

Abs(x) == IF x < 0 THEN -x ELSE x

Min(a, b) == IF a < b THEN a ELSE b

Max(a, b) == IF a > b THEN a ELSE b

\* Division rounding toward zero, as f64 products are cut to fixed point.
TruncDiv(a, b) == IF (a < 0) = (b < 0) THEN Abs(a) \div Abs(b) ELSE -(Abs(a) \div Abs(b))

\* Rust's % on floats: the remainder has the sign of the dividend.
Rem(a, b) == a - Abs(b) * TruncDiv(a, Abs(b))

\* f64::round: half away from zero.
RoundDiv(a, b) == TruncDiv(2 * a + (IF (a < 0) = (b < 0) THEN b ELSE -b), 2 * b)

\* f64::floor of a / b, b > 0.
FloorDiv(a, b) == a \div b

RECURSIVE Pow(_, _)
Pow(b, e) == IF e <= 0 THEN 1 ELSE b * Pow(b, e - 1)

None == [some |-> FALSE]

Some(x) == [some |-> TRUE, val |-> x]

----------------------------------------------------------------------------
(* Geometry (src/geometry.rs is not part of the sources at hand).          *)

Point(x, y) == [x |-> x, y |-> y]

Size(w, h) == [width |-> w, height |-> h]

Rect(l, t, r, b) == [left |-> l, top |-> t, right |-> r, bottom |-> b]

rect_contains(rect, point) ==
    /\ point.x >= rect.left
    /\ point.x < rect.right
    /\ point.y >= rect.top
    /\ point.y < rect.bottom

\* logical_point * scale
Scaled(point, scale) == Point(point.x * scale, point.y * scale)

OUTSIDE_PADDING == 10

BUTTON_PADDING == 20

BUTTON_HEIGHT == 50

----------------------------------------------------------------------------
(* Input configuration (config.input).                                     *)

Friction == [num |-> 1, den |-> 2]

InputConfig(q1, q2) ==
    [velocity_interval |-> 1, velocity_friction |-> Friction,
     max_tap_distance |-> 16, quick_minutes_1 |-> q1, quick_minutes_2 |-> q2]

\* A configuration: what is drawn from it (colors, font) and the input part.
Config(visual, input) == [visual |-> visual, input |-> input]

DefaultConfig == Config(0, InputConfig(90, 480))

Configs ==
    {DefaultConfig, Config(1, InputConfig(90, 480)), Config(0, InputConfig(10, 480))}

----------------------------------------------------------------------------
(* ScrollVelocity (src/ui/mod.rs).                                         *)

ScrollVelocityDefault == [last_tick |-> None, velocity |-> 0]

\* is_moving() that reports only a velocity apply() would keep.
is_moving_Significant(v) == Abs(v.velocity) > FP

is_moving(v) == v.velocity # 0

\* set() that leaves the tick baseline in place.
set_KeepsBaseline(v, velocity) == [v EXCEPT !.velocity = velocity]

set(v, velocity) == [v EXCEPT !.velocity = velocity, !.last_tick = None]

\* x * friction^t
FrictionPow(x, f, t) == TruncDiv(x * Pow(f.num, t), Pow(f.den, t))

\* x * (1 - friction^(t+1)) / (1 - friction)
FrictionSum(x, f, t) ==
    TruncDiv(x * (Pow(f.den, t + 1) - Pow(f.num, t + 1)),
             Pow(f.den, t) * (f.den - f.num))

\* apply() with the friction taken the wrong way round: velocity /= friction^t.
apply_Accelerates(v, input, scroll_offset, now) ==
    IF v.velocity = 0
    THEN [v |-> v, scroll_offset |-> scroll_offset]
    ELSE IF ~v.last_tick.some
    THEN [v |-> [v EXCEPT !.last_tick = Some(now)], scroll_offset |-> scroll_offset]
    ELSE LET interval == (now - v.last_tick.val) \div input.velocity_interval
             inverse == [num |-> input.velocity_friction.den,
                         den |-> input.velocity_friction.num]
             velocity == FrictionPow(v.velocity, inverse, interval)
             offset == scroll_offset
                         + FrictionSum(v.velocity, input.velocity_friction, interval)
         IN  IF Abs(velocity) > FP
             THEN [v |-> [velocity |-> velocity, last_tick |-> Some(now)],
                   scroll_offset |-> offset]
             ELSE [v |-> [velocity |-> 0, last_tick |-> None],
                   scroll_offset |-> offset]

\* apply() that lets any velocity other than 0 go on: `self.velocity != 0.`
\* where the code has `self.velocity.abs() > 1.`.
apply_KeepsCrawling(v, input, scroll_offset, now) ==
    IF v.velocity = 0
    THEN [v |-> v, scroll_offset |-> scroll_offset]
    ELSE IF ~v.last_tick.some
    THEN [v |-> [v EXCEPT !.last_tick = Some(now)], scroll_offset |-> scroll_offset]
    ELSE LET interval == (now - v.last_tick.val) \div input.velocity_interval
             velocity == FrictionPow(v.velocity, input.velocity_friction, interval)
             offset == scroll_offset
                         + FrictionSum(v.velocity, input.velocity_friction, interval)
         IN  IF velocity # 0
             THEN [v |-> [velocity |-> velocity, last_tick |-> Some(now)],
                   scroll_offset |-> offset]
             ELSE [v |-> [velocity |-> 0, last_tick |-> None],
                   scroll_offset |-> offset]

\* apply() that reads the baseline and leaves it: `self.last_tick` where the
\* code has `self.last_tick.take()`.
apply_LeavesBaseline(v, input, scroll_offset, now) ==
    IF v.velocity = 0
    THEN [v |-> v, scroll_offset |-> scroll_offset]
    ELSE IF ~v.last_tick.some
    THEN [v |-> [v EXCEPT !.last_tick = Some(now)], scroll_offset |-> scroll_offset]
    ELSE LET interval == (now - v.last_tick.val) \div input.velocity_interval
             velocity == FrictionPow(v.velocity, input.velocity_friction, interval)
             offset == scroll_offset
                         + FrictionSum(v.velocity, input.velocity_friction, interval)
         IN  IF Abs(velocity) > FP
             THEN [v |-> [velocity |-> velocity, last_tick |-> Some(now)],
                   scroll_offset |-> offset]
             ELSE [v |-> [velocity |-> 0, last_tick |-> v.last_tick],
                   scroll_offset |-> offset]

\* apply() on velocity v and the offset it scrolls: [v, scroll_offset].
apply(v, input, scroll_offset, now) ==
    IF v.velocity = 0
    THEN [v |-> v, scroll_offset |-> scroll_offset]
    ELSE IF ~v.last_tick.some
    THEN [v |-> [v EXCEPT !.last_tick = Some(now)], scroll_offset |-> scroll_offset]
    ELSE LET interval == (now - v.last_tick.val) \div input.velocity_interval
             velocity == FrictionPow(v.velocity, input.velocity_friction, interval)
             offset == scroll_offset
                         + FrictionSum(v.velocity, input.velocity_friction, interval)
         IN  IF Abs(velocity) > FP
             THEN [v |-> [velocity |-> velocity, last_tick |-> Some(now)],
                   scroll_offset |-> offset]
             ELSE [v |-> [velocity |-> 0, last_tick |-> None],
                   scroll_offset |-> offset]

\* A ScrollVelocity run on its own: v is the velocity, f the friction of the
\* input configuration, v0 what the last set() was given, sum what apply() added
\* to the scroll offset since then, now the instant of the last call, idle the
\* calls since set() that found no time elapsed; op and before keep the last
\* call and what it found, added what it added to the scroll offset.
VelocityIdle ==
    [v |-> ScrollVelocityDefault, f |-> Friction, v0 |-> 0, sum |-> 0, now |-> 0,
     idle |-> 0, op |-> "new", before |-> ScrollVelocityDefault, added |-> 0]

----------------------------------------------------------------------------
(* Alarms (rezz::Alarm) and what a handler asks of its surroundings.       *)

RING_DURATION == 15 * 60

Alarm(id, unix_time) == [id |-> id, unix_time |-> unix_time, ring_duration |-> RING_DURATION]

A1 == Alarm("a1", 1000)

A2 == Alarm("a2", 2000)

AlarmLists == {<<>>, <<A1>>, <<A1, A2>>}

\* Effects in the order the handler issues them.
Fx(kind, arg) == [kind |-> kind, arg |-> arg]

Kinds(fx) == [i \in 1..Len(fx) |-> fx[i].kind]

Count(fx, kind) == Cardinality({i \in 1..Len(fx) : fx[i].kind = kind})

Has(fx, kind) == \E i \in 1..Len(fx) : fx[i].kind = kind

\* Some effect `a` is issued and every `a` comes before every `b`.
Before(fx, a, b) ==
    \A i, j \in 1..Len(fx) : (fx[i].kind = a /\ fx[j].kind = b) => i < j

----------------------------------------------------------------------------
(* RingAlarm (src/ui/ring_alarm.rs).                                       *)

RingAlarmDefault ==
    [touch_state |-> [action |-> "None", point |-> Point(0, 0)],
     size |-> Size(0, 0), scale |-> 1, dirty |-> TRUE]

stop_button_rect(size, scale) ==
    LET padding == OUTSIDE_PADDING * scale
        button_width == size.width - 2 * padding
        button_height == BUTTON_HEIGHT * scale
        y == size.height - button_height - padding
        x == TruncDiv(size.width - button_width, 2)
    IN  Rect(x, y, x + button_width, y + button_height)

ring_draw(ra, size, scale) == [ra EXCEPT !.dirty = FALSE, !.size = size, !.scale = scale]

ring_dirty(ra) == ra.dirty

ring_touch_down(ra, logical_point) ==
    LET point == Scaled(logical_point, ra.scale)
        stop_rect == stop_button_rect(ra.size, ra.scale)
    IN  [ra EXCEPT !.touch_state =
            [action |-> IF rect_contains(stop_rect, point) THEN "Stop" ELSE "None",
             point |-> point]]

ring_touch_motion(ra, logical_point) ==
    [ra EXCEPT !.touch_state.point = Scaled(logical_point, ra.scale)]

\* touch_up() that stops on any release.
ring_touch_up_AnyRelease(ra) == "ListAlarmsView"

\* The window touch action requested.
ring_touch_up(ra) ==
    IF /\ ra.touch_state.action = "Stop"
       /\ rect_contains(stop_button_rect(ra.size, ra.scale), ra.touch_state.point)
    THEN "ListAlarmsView"
    ELSE "None"

----------------------------------------------------------------------------
(* ListAlarms (src/ui/list_alarms.rs).                                     *)

ALARMS_PADDING == 25

ALARM_HEIGHT == 80

DELETE_SIZE == 40

ListTouch(tag, id, delete) == [tag |-> tag, id |-> id, delete |-> delete]

ListTouchNone == ListTouch("None", "", FALSE)

ListAlarmsDefault ==
    [velocity |-> ScrollVelocityDefault,
     touch_state |-> [action |-> ListTouchNone, start |-> Point(0, 0), point |-> Point(0, 0)],
     scroll_offset |-> 0, size |-> Size(0, 0), scale |-> 1, alarms |-> <<>>,
     dirty |-> TRUE]

new_button_rect(size, scale) ==
    LET padding == OUTSIDE_PADDING * scale
        button_width == size.width - 2 * padding
        button_height == BUTTON_HEIGHT * scale
        y == size.height - button_height - padding
        x == TruncDiv(size.width - button_width, 2)
    IN  Rect(x, y, x + button_width, y + button_height)

last_alarm_rect(size, scale) ==
    LET new_rect == new_button_rect(size, scale)
        outside_padding == OUTSIDE_PADDING * scale
        alarms_padding == ALARMS_PADDING * scale
        button_padding == BUTTON_PADDING * scale
        width == size.width - 2 * outside_padding - 2 * alarms_padding
        height == ALARM_HEIGHT * scale
        y == new_rect.top - button_padding - height
        x == outside_padding + alarms_padding
    IN  Rect(x, y, x + width, y + height)

delete_alarm_rect(size, scale) ==
    LET alarm_rect == last_alarm_rect(size, scale)
        dsize == DELETE_SIZE * scale
        padding == TruncDiv(alarm_rect.bottom - alarm_rect.top - dsize, 2)
        x == alarm_rect.right - alarm_rect.left - padding - dsize
        y == padding
    IN  Rect(x, y, x + dsize, y + dsize)

max_scroll_offset(la) ==
    LET rect == last_alarm_rect(la.size, la.scale)
        button_padding == BUTTON_PADDING * la.scale
        alarm_height == rect.bottom - rect.top
        total_height == alarm_height * Len(la.alarms)
        max_offset == total_height - rect.bottom + button_padding
    IN  Max(max_offset, 0)

\* clamp_scroll_offset() that leaves the velocity as it is.
clamp_scroll_offset_KeepsVelocity(la) ==
    LET old_offset == la.scroll_offset
        max_offset == max_scroll_offset(la) * FP
        offset == Max(0, Min(old_offset, max_offset))
    IN  IF old_offset # offset
        THEN [la EXCEPT !.scroll_offset = offset, !.dirty = TRUE]
        ELSE la

clamp_scroll_offset(la) ==
    LET old_offset == la.scroll_offset
        max_offset == max_scroll_offset(la) * FP
        offset == Max(0, Min(old_offset, max_offset))
    IN  IF old_offset # offset
        THEN [la EXCEPT !.scroll_offset = offset, !.velocity = set(la.velocity, 0),
                        !.dirty = TRUE]
        ELSE la

\* alarm_at(): None, Some alarm with the delete flag, or the panic of
\* indexing an empty Vec.
alarm_at(la, point) ==
    LET rect == last_alarm_rect(la.size, la.scale)
    IN  IF point.x < rect.left \/ point.x >= rect.right \/ point.y >= rect.bottom
        THEN [tag |-> "None"]
        ELSE LET y == point.y * FP - la.scroll_offset
                 alarm_height == (rect.bottom - rect.top) * FP
                 bottom_relative == rect.bottom * FP - y
                 rindex == Max(FloorDiv(bottom_relative, alarm_height), 0)
                 index == Max(Len(la.alarms) - (rindex + 1), 0)
                 drect == delete_alarm_rect(la.size, la.scale)
                 relative_x == (point.x - rect.left) * FP
                 relative_y == alarm_height - FP - Rem(bottom_relative, alarm_height)
                 delete == rect_contains(
                             Rect(drect.left * FP, drect.top * FP,
                                  drect.right * FP, drect.bottom * FP),
                             Point(relative_x, relative_y))
             IN  IF index + 1 > Len(la.alarms)
                 THEN [tag |-> "Panic"]
                 ELSE [tag |-> "Some", alarm |-> la.alarms[index + 1], delete |-> delete]

list_draw(la, size, scale, input, now) ==
    LET a == apply(la.velocity, input, la.scroll_offset, now)
    IN  clamp_scroll_offset(
            [la EXCEPT !.dirty = FALSE, !.size = size, !.scale = scale,
                       !.velocity = a.v, !.scroll_offset = a.scroll_offset])

list_dirty(la) == la.dirty \/ is_moving(la.velocity)

\* set_alarms() that leaves the dirty flag alone.
list_set_alarms_KeepsClean(la, alarms) == [la EXCEPT !.alarms = alarms]

list_set_alarms(la, alarms) == [la EXCEPT !.alarms = alarms, !.dirty = TRUE]

list_touch_down(la, logical_point) ==
    LET point == Scaled(logical_point, la.scale)
        la1 == [la EXCEPT !.velocity = set(la.velocity, 0),
                          !.touch_state.point = point, !.touch_state.start = point]
        hit == alarm_at(la1, point)
    IN  IF rect_contains(new_button_rect(la.size, la.scale), point)
        THEN [la1 EXCEPT !.touch_state.action = ListTouch("CreateAlarm", "", FALSE)]
        ELSE IF hit.tag = "Some"
        THEN [la1 EXCEPT !.touch_state.action =
                            ListTouch("AlarmTap", hit.alarm.id, hit.delete)]
        ELSE [la1 EXCEPT !.touch_state.action = ListTouchNone]

\* touch_down() panics where alarm_at() indexes out of bounds.
list_touch_down_panics(la, logical_point) ==
    LET point == Scaled(logical_point, la.scale)
    IN  /\ ~rect_contains(new_button_rect(la.size, la.scale), point)
        /\ alarm_at(la, point).tag = "Panic"

list_touch_motion(la, cfg, logical_point) ==
    LET point == Scaled(logical_point, la.scale)
        old_point == la.touch_state.point
        la1 == [la EXCEPT !.touch_state.point = point]
        start == la.touch_state.start
        dx == point.x - start.x
        dy == point.y - start.y
        delta == (point.y - old_point.y) * FP
        la2 == clamp_scroll_offset(
                   [la1 EXCEPT !.touch_state.action = ListTouch("AlarmDrag", "", FALSE),
                               !.velocity = set(la.velocity, delta),
                               !.scroll_offset = la.scroll_offset + delta])
    IN  IF la.touch_state.action.tag \in {"AlarmTap", "AlarmDrag"}
        THEN IF dx * dx + dy * dy <= cfg.input.max_tap_distance
             THEN la1
             ELSE [la2 EXCEPT !.dirty = la2.dirty \/ la2.scroll_offset # la.scroll_offset]
        ELSE la1

\* touch_up() that takes the alarm off the list as it asks for its removal.
list_touch_up_DropsAlarm(la) ==
    LET action == la.touch_state.action
        la1 == [la EXCEPT !.touch_state.action = ListTouchNone]
        kept == SelectSeq(la.alarms, LAMBDA a : a.id # action.id)
    IN  IF /\ action.tag = "CreateAlarm"
           /\ rect_contains(new_button_rect(la.size, la.scale), la.touch_state.point)
        THEN [view |-> la1, action |-> "CreateAlarmView", fx |-> <<>>]
        ELSE IF action.tag = "AlarmTap" /\ action.delete
        THEN [view |-> [la1 EXCEPT !.alarms = kept], action |-> "None",
              fx |-> <<Fx("remove", action.id)>>]
        ELSE [view |-> la1, action |-> "None", fx |-> <<>>]

\* touch_up(): the view, the window action requested and the effects issued.
list_touch_up(la) ==
    LET action == la.touch_state.action
        la1 == [la EXCEPT !.touch_state.action = ListTouchNone]
    IN  IF /\ action.tag = "CreateAlarm"
           /\ rect_contains(new_button_rect(la.size, la.scale), la.touch_state.point)
        THEN [view |-> la1, action |-> "CreateAlarmView", fx |-> <<>>]
        ELSE IF action.tag = "AlarmTap" /\ action.delete
        THEN [view |-> la1, action |-> "None", fx |-> <<Fx("remove", action.id)>>]
        ELSE [view |-> la1, action |-> "None", fx |-> <<>>]

----------------------------------------------------------------------------
(* TextCarousel (src/ui/create_alarm.rs).                                  *)

CAROUSEL_ITEM_SIZE == 75

CAROUSEL_SPACE == 50

\* format!("{n:0>2}"): the two digits of n < 100.
Format2(n) == <<n \div 10, n % 10>>

\* str::parse of a digit string.
RECURSIVE Parse(_)
Parse(s) == IF s = <<>> THEN 0 ELSE 10 * Parse(SubSeq(s, 1, Len(s) - 1)) + s[Len(s)]

TextCarousel(items) ==
    [velocity |-> ScrollVelocityDefault, touch_point |-> Point(0, 0),
     touch_active |-> FALSE, scroll_offset |-> 0, items |-> items,
     scale |-> 1, dirty |-> TRUE]

item_height(tc) == CAROUSEL_ITEM_SIZE * tc.scale * FP

carousel_max_scroll_offset(tc) == Len(tc.items) * item_height(tc)

carousel_clamp_scroll_offset(tc) ==
    LET offset == Rem(tc.scroll_offset, carousel_max_scroll_offset(tc))
    IN  [tc EXCEPT !.scroll_offset = offset,
                   !.dirty = tc.dirty \/ tc.scroll_offset # offset]

rounded_offset(tc) ==
    LET remainder == Rem(tc.scroll_offset, item_height(tc))
        offset == tc.scroll_offset - remainder
    IN  IF 2 * Abs(remainder) >= item_height(tc)
        THEN offset + (IF tc.scroll_offset < 0 THEN -item_height(tc) ELSE item_height(tc))
        ELSE offset

value(tc) ==
    LET index == RoundDiv(-tc.scroll_offset, item_height(tc)) % Len(tc.items)
    IN  Parse(tc.items[index + 1])

scroll_to(tc, index) ==
    [tc EXCEPT !.scroll_offset = -item_height(tc) * index, !.dirty = TRUE]

\* draw() without the snap to the nearest item.
carousel_draw_NoSnap(tc, scale, input, now) ==
    LET rescaled == IF tc.scale # scale
                    THEN TruncDiv(tc.scroll_offset * scale, tc.scale)
                    ELSE tc.scroll_offset
        a == apply(tc.velocity, input, rescaled, now)
    IN  carousel_clamp_scroll_offset(
            [tc EXCEPT !.dirty = FALSE, !.scale = scale,
                       !.velocity = a.v, !.scroll_offset = a.scroll_offset])

carousel_draw(tc, scale, input, now) ==
    LET rescaled == IF tc.scale # scale
                    THEN TruncDiv(tc.scroll_offset * scale, tc.scale)
                    ELSE tc.scroll_offset
        a == apply(tc.velocity, input, rescaled, now)
        tc1 == carousel_clamp_scroll_offset(
                   [tc EXCEPT !.dirty = FALSE, !.scale = scale,
                              !.velocity = a.v, !.scroll_offset = a.scroll_offset])
    IN  IF ~is_moving(tc1.velocity) /\ ~tc1.touch_active
        THEN [tc1 EXCEPT !.scroll_offset = rounded_offset(tc1)]
        ELSE tc1

carousel_dirty(tc) ==
    \/ tc.dirty
    \/ is_moving(tc.velocity)
    \/ (~tc.touch_active /\ tc.scroll_offset # rounded_offset(tc))

carousel_touch_down(tc, physical_point) ==
    [tc EXCEPT !.velocity = set(tc.velocity, 0), !.touch_point = physical_point,
               !.touch_active = TRUE]

carousel_touch_motion(tc, physical_point) ==
    LET delta == (physical_point.y - tc.touch_point.y) * FP
        tc1 == carousel_clamp_scroll_offset(
                   [tc EXCEPT !.touch_point = physical_point,
                              !.velocity = set(tc.velocity, delta),
                              !.scroll_offset = tc.scroll_offset + delta])
    IN  [tc1 EXCEPT !.dirty = tc1.dirty \/ tc1.scroll_offset # tc.scroll_offset]

carousel_touch_up(tc) == [tc EXCEPT !.touch_active = FALSE]

----------------------------------------------------------------------------
(* CreateAlarm (src/ui/create_alarm.rs).                                   *)

Hours == [h \in 1..24 |-> Format2(h - 1)]

Minutes == [m \in 1..12 |-> Format2(5 * (m - 1))]

CreateAlarmDefault ==
    [touch_state |-> [action |-> "None", start |-> Point(0, 0), point |-> Point(0, 0)],
     minute_carousel |-> TextCarousel(Minutes), hour_carousel |-> TextCarousel(Hours),
     size |-> Size(0, 0), scale |-> 1, dirty |-> TRUE]

back_button_rect(size, scale) ==
    LET button_size == BUTTON_HEIGHT * scale
        padding == OUTSIDE_PADDING * scale
        y == size.height - button_size - padding
        x == padding
    IN  Rect(x, y, x + button_size, y + button_size)

confirm_button_rect(size, scale) ==
    LET button_size == BUTTON_HEIGHT * scale
        padding == OUTSIDE_PADDING * scale
        y == size.height - button_size - padding
        x == size.width - button_size - padding
    IN  Rect(x, y, x + button_size, y + button_size)

quick_action_rect_1(size, scale) ==
    LET back_rect == back_button_rect(size, scale)
        button_padding == BUTTON_PADDING * scale
        space == CAROUSEL_SPACE * scale
        height == back_rect.bottom - back_rect.top
        y == back_rect.top - button_padding - height
        left == OUTSIDE_PADDING * scale
        right == TruncDiv(size.width - space, 2)
    IN  Rect(left, y, right, y + height)

quick_action_rect_2(size, scale) ==
    LET back_rect == back_button_rect(size, scale)
        button_padding == BUTTON_PADDING * scale
        space == CAROUSEL_SPACE * scale
        height == back_rect.bottom - back_rect.top
        y == back_rect.top - button_padding - height
        left == TruncDiv(size.width + space, 2)
        right == size.width - OUTSIDE_PADDING * scale
    IN  Rect(left, y, right, y + height)

hour_carousel_rect(size, scale) ==
    LET quick_rect == quick_action_rect_1(size, scale)
        button_padding == BUTTON_PADDING * scale
        item_size == CAROUSEL_ITEM_SIZE * scale
        space == CAROUSEL_SPACE * scale
        height == item_size * 3
        y == quick_rect.top - button_padding - height
        x == TruncDiv(size.width, 2) - item_size - TruncDiv(space, 2)
    IN  Rect(x, y, x + item_size, y + height)

minute_carousel_rect(size, scale) ==
    LET hour_rect == hour_carousel_rect(size, scale)
        item_size == CAROUSEL_ITEM_SIZE * scale
        space == CAROUSEL_SPACE * scale
        x == TruncDiv(size.width, 2) + TruncDiv(space, 2)
    IN  Rect(x, hour_rect.top, x + item_size, hour_rect.bottom)

\* Local wall-clock time: a day number and the time of day.
WallTime(day, hour, minute, second) ==
    [day |-> day, hour |-> hour, minute |-> minute, second |-> second]

SecondOfDay(t) == t.hour * 3600 + t.minute * 60 + t.second

\* alarm_time() without the step to the next day.
alarm_time_Today(ca, now) ==
    WallTime(now.day, value(ca.hour_carousel), value(ca.minute_carousel), 0)

\* alarm_time(): the date and time of day of the next occurrence.
alarm_time(ca, now) ==
    LET minute == value(ca.minute_carousel)
        hour == value(ca.hour_carousel)
        time == hour * 3600 + minute * 60
    IN  WallTime(IF time < SecondOfDay(now) THEN now.day + 1 ELSE now.day, hour, minute, 0)

\* (alarm_time - UNIX_EPOCH).whole_seconds()
UnixTime(t) == t.day * 86400 + SecondOfDay(t)

add_minutes(ca, interval) ==
    LET minutes == value(ca.minute_carousel)
        hours == value(ca.hour_carousel)
        new_minutes == (minutes + interval) % 60
        new_hours == hours + (minutes + interval) \div 60
    IN  [ca EXCEPT !.minute_carousel = scroll_to(ca.minute_carousel, new_minutes \div 5),
                   !.hour_carousel = scroll_to(ca.hour_carousel, new_hours)]

\* reset(): the wheels show the time five minutes from now.
\* reset() one minute ahead, as its second comment has it ("Scroll to the
\* time one minute from now").
reset_OneMinute(ca, now) ==
    LET time == (SecondOfDay(now) + 60) % 86400
        minute == (time \div 60) % 60
        hour == time \div 3600
    IN  [ca EXCEPT !.minute_carousel = scroll_to(ca.minute_carousel, minute \div 5),
                   !.hour_carousel = scroll_to(ca.hour_carousel, hour)]

reset(ca, now) ==
    LET time == (SecondOfDay(now) + 5 * 60) % 86400
        minute == (time \div 60) % 60
        hour == time \div 3600
    IN  [ca EXCEPT !.minute_carousel = scroll_to(ca.minute_carousel, minute \div 5),
                   !.hour_carousel = scroll_to(ca.hour_carousel, hour)]

create_draw(ca, size, scale, input, now) ==
    [ca EXCEPT !.dirty = FALSE, !.size = size, !.scale = scale,
               !.hour_carousel = carousel_draw(ca.hour_carousel, scale, input, now),
               !.minute_carousel = carousel_draw(ca.minute_carousel, scale, input, now)]

create_dirty(ca) ==
    ca.dirty \/ carousel_dirty(ca.hour_carousel) \/ carousel_dirty(ca.minute_carousel)

create_touch_down(ca, logical_point) ==
    LET point == Scaled(logical_point, ca.scale)
        ca1 == [ca EXCEPT !.touch_state.point = point, !.touch_state.start = point]
    IN  IF rect_contains(confirm_button_rect(ca.size, ca.scale), point)
        THEN [ca1 EXCEPT !.touch_state.action = "Confirm"]
        ELSE IF rect_contains(back_button_rect(ca.size, ca.scale), point)
        THEN [ca1 EXCEPT !.touch_state.action = "Back"]
        ELSE IF rect_contains(minute_carousel_rect(ca.size, ca.scale), point)
        THEN [ca1 EXCEPT !.touch_state.action = "MinuteCarousel",
                         !.minute_carousel = carousel_touch_down(ca.minute_carousel, point)]
        ELSE IF rect_contains(hour_carousel_rect(ca.size, ca.scale), point)
        THEN [ca1 EXCEPT !.touch_state.action = "HourCarousel",
                         !.hour_carousel = carousel_touch_down(ca.hour_carousel, point)]
        ELSE IF rect_contains(quick_action_rect_1(ca.size, ca.scale), point)
        THEN [ca1 EXCEPT !.touch_state.action = "QuickAction1"]
        ELSE IF rect_contains(quick_action_rect_2(ca.size, ca.scale), point)
        THEN [ca1 EXCEPT !.touch_state.action = "QuickAction2"]
        ELSE [ca1 EXCEPT !.touch_state.action = "None"]

create_touch_motion(ca, logical_point) ==
    LET point == Scaled(logical_point, ca.scale)
        ca1 == [ca EXCEPT !.touch_state.point = point]
    IN  CASE ca.touch_state.action = "MinuteCarousel" ->
                [ca1 EXCEPT !.minute_carousel =
                                carousel_touch_motion(ca.minute_carousel, point)]
          [] ca.touch_state.action = "HourCarousel" ->
                [ca1 EXCEPT !.hour_carousel =
                                carousel_touch_motion(ca.hour_carousel, point)]
          [] OTHER -> ca1

\* touch_up(): the view, the window action requested and the effects issued.
create_touch_up(ca, input_config, now) ==
    LET action == ca.touch_state.action
        stay(v) == [view |-> v, action |-> "None", fx |-> <<>>]
    IN  CASE action = "Back" ->
                IF rect_contains(back_button_rect(ca.size, ca.scale), ca.touch_state.point)
                THEN [view |-> ca, action |-> "ListAlarmsView", fx |-> <<>>]
                ELSE stay(ca)
          [] action = "Confirm" ->
                IF rect_contains(confirm_button_rect(ca.size, ca.scale),
                                 ca.touch_state.point)
                THEN [view |-> ca, action |-> "ListAlarmsView",
                      fx |-> <<Fx("add", Alarm("new", UnixTime(alarm_time(ca, now))))>>]
                ELSE stay(ca)
          [] action = "QuickAction1" -> stay(add_minutes(ca, input_config.quick_minutes_1))
          [] action = "QuickAction2" -> stay(add_minutes(ca, input_config.quick_minutes_2))
          [] action = "MinuteCarousel" ->
                stay([ca EXCEPT !.minute_carousel = carousel_touch_up(ca.minute_carousel)])
          [] action = "HourCarousel" ->
                stay([ca EXCEPT !.hour_carousel = carousel_touch_up(ca.hour_carousel)])
          [] OTHER -> stay(ca)

\* The rectangle draw() gives the alarm r rows above the bottommost one, in
\* fixed point: last_alarm_rect moved by the scroll offset and r row heights.
row_rect(la, r) ==
    LET rect == last_alarm_rect(la.size, la.scale)
        shift == la.scroll_offset - r * (rect.bottom - rect.top) * FP
    IN  Rect(rect.left * FP, rect.top * FP + shift,
             rect.right * FP, rect.bottom * FP + shift)

\* The delete icon draw_alarm() puts into that rectangle.
delete_icon_rect(la, r) ==
    LET row == row_rect(la, r)
        drect == delete_alarm_rect(la.size, la.scale)
    IN  Rect(drect.left * FP + row.left, drect.top * FP + row.top,
             drect.right * FP + row.left, drect.bottom * FP + row.top)

\* The point lies where the alarm list is drawn: inside the clipping mask.
in_alarm_clip(la, p) ==
    LET rect == last_alarm_rect(la.size, la.scale)
    IN  /\ p.x >= 0 /\ p.x < rect.right * FP
        /\ p.y >= 0 /\ p.y < rect.bottom * FP

\* The index in la.alarms of the alarm drawn at the logical point, 0 when none
\* is drawn there; draw() puts the last alarm at the bottom.
RowAt(la, logical_point) ==
    LET point == Scaled(logical_point, la.scale)
        p == Point(point.x * FP, point.y * FP)
        n == Len(la.alarms)
        hit == {i \in 1..n : in_alarm_clip(la, p) /\ rect_contains(row_rect(la, n - i), p)}
    IN  IF hit = {} THEN 0 ELSE CHOOSE i \in hit : TRUE

\* A delete icon is drawn at the logical point.
OnDeleteIcon(la, logical_point) ==
    LET point == Scaled(logical_point, la.scale)
        p == Point(point.x * FP, point.y * FP)
        n == Len(la.alarms)
    IN  \E i \in 1..n :
            in_alarm_clip(la, p) /\ rect_contains(delete_icon_rect(la, n - i), p)

\* No touch was pressed yet. Of a touch is kept the view it was pressed in and
\* the point, the alarm and whether a delete icon was drawn there, and whether
\* it has since moved farther from the point than a tap may.
NoOrigin ==
    [view |-> "None", point |-> Point(0, 0), row |-> 0, delete |-> FALSE, far |-> FALSE]

\* A CreateAlarm view nothing was done to yet, with the record of the call
\* made last: what the wheels showed before it, the wall time and the quick
\* interval it was given, the action it asked of the window and its effects.
SelectionIdle ==
    [ca |-> CreateAlarmDefault, op |-> "new", hour |-> 0, minute |-> 0,
     now |-> WallTime(0, 0, 0, 0), k |-> 0, action |-> "None", fx |-> <<>>]

----------------------------------------------------------------------------
(* Window (src/ui/window.rs).                                              *)

RenderConfig(cfg) == [visual |-> cfg.visual, input_config |-> cfg.input]

NoAlarm == Alarm("", 0)

DefaultSize == Size(360, 720)

\* Window::new(): the freshly constructed window.
WindowNew(cfg) ==
    [stalled |-> TRUE, dirty |-> TRUE, view |-> "ListAlarms",
     alarm |-> NoAlarm, sound |-> FALSE,
     size |-> DefaultSize, scale |-> 1, initial_draw_done |-> FALSE,
     render_config |-> RenderConfig(cfg),
     create_alarm |-> CreateAlarmDefault, list_alarms |-> ListAlarmsDefault,
     ring_alarm |-> RingAlarmDefault,
     fx |-> <<>>, panicked |-> FALSE]

Emit(w, kind) == [w EXCEPT !.fx = Append(w.fx, Fx(kind, ""))]

\* self.dirty = true
SetDirty(w) == Emit([w EXCEPT !.dirty = TRUE], "dirty")

\* Window::dirty(): the aggregated dirty predicate.
dirty(w) ==
    \/ w.dirty
    \/ CASE w.view = "ListAlarms" -> list_dirty(w.list_alarms)
         [] w.view = "CreateAlarm" -> create_dirty(w.create_alarm)
         [] w.view = "RingAlarm" -> ring_dirty(w.ring_alarm)

\* The render closure of draw(): the active view draws itself.
RenderView(w, now) ==
    LET size == Size(w.size.width * w.scale, w.size.height * w.scale)
        input == w.render_config.input_config
    IN  CASE w.view = "ListAlarms" ->
                [w EXCEPT !.list_alarms = list_draw(w.list_alarms, size, w.scale, input, now)]
          [] w.view = "CreateAlarm" ->
                [w EXCEPT !.create_alarm =
                              create_draw(w.create_alarm, size, w.scale, input, now)]
          [] w.view = "RingAlarm" ->
                [w EXCEPT !.ring_alarm = ring_draw(w.ring_alarm, size, w.scale)]

\* draw() without `self.stalled = true` on the skipped path.
draw_NeverStalls(w, now) ==
    LET w0 == [w EXCEPT !.fx = Append(w.fx, Fx("draw", IF dirty(w) THEN "dirty" ELSE "clean"))]
    IN  IF ~dirty(w0)
        THEN w0
        ELSE LET w1 == [w0 EXCEPT !.initial_draw_done = TRUE, !.dirty = FALSE]
                 w2 == Emit(Emit(w1, "set_destination"), "damage")
                 w3 == Emit(RenderView(w2, now), "render")
             IN  Emit(Emit(w3, "frame"), "commit")

\* draw() committing the surface before it requests the frame.
draw_CommitsFirst(w, now) ==
    LET w0 == [w EXCEPT !.fx = Append(w.fx, Fx("draw", IF dirty(w) THEN "dirty" ELSE "clean"))]
    IN  IF ~dirty(w0)
        THEN [w0 EXCEPT !.stalled = TRUE]
        ELSE LET w1 == [w0 EXCEPT !.initial_draw_done = TRUE, !.dirty = FALSE]
                 w2 == Emit(Emit(w1, "set_destination"), "damage")
                 w3 == Emit(RenderView(w2, now), "render")
             IN  Emit(Emit(w3, "commit"), "frame")

\* draw(); the log keeps what the aggregated dirty predicate was at the call.
draw(w, now) ==
    LET w0 == [w EXCEPT !.fx = Append(w.fx, Fx("draw", IF dirty(w) THEN "dirty" ELSE "clean"))]
    IN  IF ~dirty(w0)
        THEN [w0 EXCEPT !.stalled = TRUE]
        ELSE LET w1 == [w0 EXCEPT !.initial_draw_done = TRUE, !.dirty = FALSE]
                 w2 == Emit(Emit(w1, "set_destination"), "damage")
                 w3 == Emit(RenderView(w2, now), "render")
             IN  Emit(Emit(w3, "frame"), "commit")

\* unstall() that draws whether the window is stalled or not.
unstall_AlwaysDraws(w, now) ==
    LET w0 == [w EXCEPT !.fx = Append(w.fx, Fx("unstall", IF w.stalled THEN "stalled"
                                                                        ELSE "running"))]
    IN  Emit(draw([w0 EXCEPT !.stalled = FALSE], now), "flush")

\* unstall() without the flush after draw().
unstall_SkipsFlush(w, now) ==
    LET w0 == [w EXCEPT !.fx = Append(w.fx, Fx("unstall", IF w.stalled THEN "stalled"
                                                                        ELSE "running"))]
    IN  IF ~w0.stalled
        THEN w0
        ELSE draw([w0 EXCEPT !.stalled = FALSE], now)

\* unstall() reading stalled where it should take it: `if !self.stalled`.
unstall_KeepsStalled(w, now) ==
    LET w0 == [w EXCEPT !.fx = Append(w.fx, Fx("unstall", IF w.stalled THEN "stalled"
                                                                        ELSE "running"))]
    IN  IF ~w0.stalled
        THEN w0
        ELSE Emit(draw(w0, now), "flush")

\* unstall(); the log keeps what stalled was at the call.
unstall(w, now) ==
    LET w0 == [w EXCEPT !.fx = Append(w.fx, Fx("unstall", IF w.stalled THEN "stalled"
                                                                        ELSE "running"))]
    IN  IF ~w0.stalled
        THEN w0
        ELSE Emit(draw([w0 EXCEPT !.stalled = FALSE], now), "flush")

\* set_alarms() without the unstall() after the list is replaced.
set_alarms_NoUnstall(w, alarms, now) ==
    [w EXCEPT !.list_alarms = list_set_alarms(w.list_alarms, alarms)]

set_alarms(w, alarms, now) ==
    unstall([w EXCEPT !.list_alarms = list_set_alarms(w.list_alarms, alarms)], now)

\* The view replaced with the sound of the old view still held.
SetView_HoldsSound(w, view, alarm, sound) ==
    LET w1 == IF w.sound THEN Emit(w, "drop_sound") ELSE w
    IN  [w1 EXCEPT !.view = view, !.alarm = alarm, !.sound = w.sound \/ sound]

\* The view replaced with the sound of the old view kept alive.
SetView_KeepsSound(w, view, alarm, sound) ==
    [w EXCEPT !.view = view, !.alarm = alarm, !.sound = sound]

\* The view is replaced: a sound the old view held is dropped.
SetView(w, view, alarm, sound) ==
    LET w1 == IF w.sound THEN Emit(w, "drop_sound") ELSE w
    IN  [w1 EXCEPT !.view = view, !.alarm = alarm, !.sound = sound]

\* ring() that asks for the removal once the sound plays.
ring_RemovesAfterPlay(w, alarm, play_ok, now) ==
    LET taken == [alarm EXCEPT !.id = ""]
        w2 == [w EXCEPT !.fx = <<Fx("play", IF w.sound THEN "ringing" ELSE "silent"),
                                 Fx("remove", alarm.id)>>]
    IN  IF ~play_ok
        THEN Emit(w, "play_failed")
        ELSE unstall(SetDirty(SetView(w2, "RingAlarm", taken, TRUE)), now)

\* ring(): play_ok is whether AlarmSound::play() returned a sound. The log
\* keeps whether the view held a sound when the new one started to play.
ring(w, alarm, play_ok, now) ==
    LET w1 == [w EXCEPT !.fx = Append(w.fx, Fx("remove", alarm.id))]
        taken == [alarm EXCEPT !.id = ""]
        w2 == [w1 EXCEPT !.fx = Append(w1.fx, Fx("play", IF w.sound THEN "ringing"
                                                                      ELSE "silent"))]
    IN  IF ~play_ok
        THEN Emit(w1, "play_failed")
        ELSE unstall(SetDirty(SetView(w2, "RingAlarm", taken, TRUE)), now)

\* set_size() without the unstall() after the resize.
set_size_NoUnstall(w, size, now) ==
    IF w.size = size
    THEN w
    ELSE Emit(SetDirty([w EXCEPT !.size = size]), "set_opaque_region")

set_size(w, size, now) ==
    IF w.size = size
    THEN w
    ELSE unstall(Emit(SetDirty([w EXCEPT !.size = size]), "set_opaque_region"), now)

set_scale_factor(w, scale, now) ==
    IF w.scale = scale
    THEN w
    ELSE unstall(SetDirty([w EXCEPT !.scale = scale]), now)

\* RenderConfig::update_config(): whether a value that is drawn changed.
render_update_config(rc, cfg) == rc.visual # cfg.visual

update_config(w, cfg, now) ==
    LET w1 == [w EXCEPT !.render_config = RenderConfig(cfg)]
    IN  IF render_update_config(w.render_config, cfg)
        THEN unstall(SetDirty(w1), now)
        ELSE w1

touch_down(w, point, now) ==
    CASE w.view = "ListAlarms" ->
            IF list_touch_down_panics(w.list_alarms, point)
            THEN [w EXCEPT !.panicked = TRUE]
            ELSE unstall([w EXCEPT !.list_alarms = list_touch_down(w.list_alarms, point)],
                         now)
      [] w.view = "CreateAlarm" ->
            unstall([w EXCEPT !.create_alarm = create_touch_down(w.create_alarm, point)],
                    now)
      [] w.view = "RingAlarm" ->
            unstall([w EXCEPT !.ring_alarm = ring_touch_down(w.ring_alarm, point)], now)

touch_motion(w, cfg, point, now) ==
    CASE w.view = "ListAlarms" ->
            unstall([w EXCEPT !.list_alarms = list_touch_motion(w.list_alarms, cfg, point)],
                    now)
      [] w.view = "CreateAlarm" ->
            unstall([w EXCEPT !.create_alarm = create_touch_motion(w.create_alarm, point)],
                    now)
      [] w.view = "RingAlarm" ->
            unstall([w EXCEPT !.ring_alarm = ring_touch_motion(w.ring_alarm, point)], now)

\* touch_up(): wall is the local time read by reset() and alarm_time().
touch_up(w, wall, now) ==
    LET r == CASE w.view = "ListAlarms" -> list_touch_up(w.list_alarms)
               [] w.view = "CreateAlarm" ->
                     create_touch_up(w.create_alarm, w.render_config.input_config, wall)
               [] w.view = "RingAlarm" ->
                     [view |-> w.ring_alarm, action |-> ring_touch_up(w.ring_alarm),
                      fx |-> <<>>]
        w1 == CASE w.view = "ListAlarms" -> [w EXCEPT !.list_alarms = r.view]
                [] w.view = "CreateAlarm" -> [w EXCEPT !.create_alarm = r.view]
                [] w.view = "RingAlarm" -> w
        w2 == [w1 EXCEPT !.fx = w1.fx \o r.fx]
        w3 == CASE r.action = "None" -> w2
                [] r.action = "ListAlarmsView" ->
                      SetDirty(SetView(w2, "ListAlarms", NoAlarm, FALSE))
                [] r.action = "CreateAlarmView" ->
                      SetDirty([SetView(w2, "CreateAlarm", NoAlarm, FALSE)
                                   EXCEPT !.create_alarm = reset(w2.create_alarm, wall)])
    IN  unstall(w3, now)

----------------------------------------------------------------------------
(* The alarm event bridge (src/main.rs, State::spawn_listener).            *)

AlarmsChanged(alarms) == [type |-> "AlarmsChanged", alarms |-> alarms, alarm |-> NoAlarm]

Ring(alarm) == [type |-> "Ring", alarms |-> <<>>, alarm |-> alarm]

NoEvent == [type |-> "None", alarms |-> <<>>, alarm |-> NoAlarm]

Events == {AlarmsChanged(l) : l \in AlarmLists} \cup {Ring(A1)}

\* alarms_tx.send(event)
send(ch, event) == Append(ch, event)

\* The message the channel source hands to its callback next.
recv(ch) == Head(ch)

\* The channel after that message was taken.
rest(ch) == Tail(ch)

\* The copy made from an empty vector instead of alarms.to_vec().
normalized_DropsAlarms(event) ==
    IF event.type = "AlarmsChanged" THEN AlarmsChanged(<<>>) ELSE Ring(event.alarm)

\* The worker's normalized copy of an event: alarms.to_vec().into().
normalized(event) ==
    IF event.type = "AlarmsChanged" THEN AlarmsChanged(event.alarms) ELSE Ring(event.alarm)

----------------------------------------------------------------------------
(* AlarmSound::play() and Pulseaudio (alarm/src/audio.rs).                 *)

\* libpulse's context states and the results of Mainloop::iterate(true).
PulseStates ==
    {"Unconnected", "Connecting", "Authorizing", "SettingName", "Ready", "Failed",
     "Terminated"}

IterateResults == {"Success", "Quit", "Err"}

\* play() was not called yet.
PulseaudioIdle == [pc |-> "idle", log |-> <<>>, waits |-> 0, flushed |-> 0, result |-> "none"]

Did(p, kind, arg) == [p EXCEPT !.log = Append(p.log, Fx(kind, arg))]

At(p, pc) == [p EXCEPT !.pc = pc]

\* dispatch(): Ok(()) on IterateResult::Success, an error on Quit and Err.
dispatch(result) == result = "Success"

\* Drop for Pulseaudio: context.disconnect().
drop(p) == Did(p, "disconnect", "")

\* play() that returns the error of the volume raise: Pulseaudio::connect()?
PulseaudioError_Propagates(p) ==
    [At(Did(p, "pulse_error", ""), "done") EXCEPT !.result = "Err"]

\* if let Err(err) = .. { error!("Pulseaudio error: {err}") }: play() goes on
\* with the playback step.
PulseaudioError(p) == At(Did(p, "pulse_error", ""), "stream")

\* An error with the Pulseaudio struct built: the struct is dropped while the
\* error is returned.
PulseaudioAbort(p) == PulseaudioError(drop(p))

----------------------------------------------------------------------------
(* Inputs of the model.                                                    *)

PBack == Point(35, 685)

PConfirm == Point(325, 685)

PWheel == Point(100, 400)

PDelete == Point(285, 600)

Points == {PBack, PConfirm, PWheel, PDelete}

\* Motion events move the touch point by one of these.
Deltas == {Point(0, 8), Point(0, -8), Point(200, 0)}

Sizes == {DefaultSize, Size(360, 200)}

Scales == {1, 2}

WallTimes == {WallTime(19723, 8, 0, 0), WallTime(19723, 23, 57, 30)}

----------------------------------------------------------------------------
(* Initial state: State::new() has built the window and spawned the        *)
(* listener; run() is about to enter its loop.                             *)

Init ==
    /\ window = WindowNew(DefaultConfig)
    /\ frame_pending = 0
    /\ touching = FALSE
    /\ finger = Point(0, 0)
    /\ n_inputs = 0
    /\ clock = 0
    /\ config = DefaultConfig
    /\ worker = "new"
    /\ channel = <<>>
    /\ tx_alive = TRUE
    /\ subscriber \in {[alarms |-> l] : l \in AlarmLists}
    /\ produced = <<>>
    /\ terminated = FALSE
    /\ loop_pc = "dispatch"
    /\ late_dispatches = 0
    /\ first_handled = NoEvent
    /\ op = [name |-> "new", msg |-> NoEvent, expected |-> NoEvent, prior |-> "none"]
    /\ tasks = [pending |-> 0, errors |-> 0]
    /\ pa = PulseaudioIdle
    /\ sv = VelocityIdle
    /\ sel = SelectionIdle
    /\ pressed = NoOrigin

Op(name) == [name |-> name, msg |-> NoEvent, expected |-> NoEvent, prior |-> "none"]

touch_vars == <<touching, finger>>

bridge_vars == <<worker, channel, tx_alive, subscriber, produced, first_handled>>

loop_vars == <<terminated, loop_pc, late_dispatches>>

\* The presentation thread is inside event_loop.dispatch() and alive.
Dispatching == loop_pc = "dispatch" /\ ~window.panicked

\* The environment delivers one more event.
Input == n_inputs < MaxInputs /\ n_inputs' = n_inputs + 1

\* A handler starts with nothing issued yet.
Fresh == [window EXCEPT !.fx = <<>>]

\* The instants recorded as tick baselines.
Baselines(w) ==
    {v.last_tick.val : v \in {x \in {w.list_alarms.velocity,
                                     w.create_alarm.hour_carousel.velocity,
                                     w.create_alarm.minute_carousel.velocity} :
                               x.last_tick.some}}

Earliest(S) == CHOOSE x \in S : \A y \in S : x <= y

Rebase(v, origin) ==
    IF v.last_tick.some THEN [v EXCEPT !.last_tick = Some(v.last_tick.val - origin)] ELSE v

\* Instants are kept relative to the oldest baseline recorded (to now, when
\* there is none): only differences of instants are ever read.
Rebased(w, origin) ==
    [w EXCEPT !.list_alarms.velocity = Rebase(@, origin),
              !.create_alarm.hour_carousel.velocity = Rebase(@, origin),
              !.create_alarm.minute_carousel.velocity = Rebase(@, origin)]

\* tokio::spawn(async move { Alarms.remove(id).await .. }) and the same with
\* Alarms.add(alarm): the tasks a handler left on the task pool.
Spawned(fx) == Count(fx, "remove") + Count(fx, "add")

\* The handler ran at instant now and left the window as w: the compositor
\* receives its requests and the task pool the tasks spawned.
HandledAt(w, pending, now) ==
    LET origin == Earliest(Baselines(w) \cup {now})
    IN  /\ window' = Rebased(w, origin)
        /\ clock' = now - origin
        /\ frame_pending' = pending + Count(w.fx, "frame")
        /\ frame_pending' <= MaxPending
        /\ tasks' = [tasks EXCEPT !.pending = @ + Spawned(w.fx)]

Handled(w, pending) == HandledAt(w, pending, clock)

----------------------------------------------------------------------------
(* The presentation loop (src/main.rs, run).                               *)

\* while !state.terminated { event_loop.dispatch(None, &mut state)?; }
\* dispatch() returns and the loop's condition is read: the loop ends, or
\* dispatch() is entered again.
\* A dispatch() entered although the termination flag is set is counted.
LateDispatch(pc) == IF terminated /\ pc = "dispatch" THEN 1 ELSE late_dispatches

\* The loop that never reads the flag: loop { event_loop.dispatch(..)?; }
DispatchReturns_IgnoresFlag ==
    /\ Dispatching
    /\ loop_pc' = "dispatch"
    /\ late_dispatches' = LateDispatch(loop_pc')
    /\ UNCHANGED <<unit_vars, tasks, pa, window, frame_pending, touch_vars, n_inputs, clock, config,
                   bridge_vars, terminated, op>>

DispatchReturns ==
    /\ Dispatching
    /\ loop_pc' = IF terminated THEN "exited" ELSE "dispatch"
    /\ late_dispatches' = LateDispatch(loop_pc')
    /\ UNCHANGED <<unit_vars, tasks, pa, window, frame_pending, touch_vars, n_inputs, clock, config,
                   bridge_vars, terminated, op>>

\* Instant::now() advances while the loop waits.
Tick ==
    /\ clock < MaxClock /\ Baselines(window) # {}
    /\ clock' = clock + 1
    /\ UNCHANGED <<unit_vars, tasks, pa, window, frame_pending, touch_vars, n_inputs, config,
                   bridge_vars, loop_vars, op>>

----------------------------------------------------------------------------
(* Handlers of the presentation thread.                                    *)

\* The compositor's frame callback, one frame period (a velocity interval)
\* after the previous handler: draw().
Frame ==
    /\ Dispatching /\ frame_pending > 0
    /\ HandledAt(draw(Fresh, clock + 1), frame_pending - 1, clock + 1)
    /\ op' = Op("frame")
    /\ UNCHANGED <<unit_vars, pa, touch_vars, n_inputs, config, bridge_vars, loop_vars>>

\* unstall() called on its own; prior is what the call right before it, when
\* that was unstall() too, did.
Unstall ==
    /\ Dispatching
    /\ Handled(unstall(Fresh, clock), frame_pending)
    /\ op' = [Op("unstall") EXCEPT !.prior = IF op.name # "unstall" THEN "none"
                                             ELSE IF Has(window.fx, "render")
                                             THEN "unstall_rendered"
                                             ELSE "unstall_idle"]
    /\ UNCHANGED <<unit_vars, pa, touch_vars, n_inputs, config, bridge_vars, loop_vars>>

\* draw() called on its own: it is public, as is initial_draw_done.
Draw ==
    /\ Dispatching /\ Input
    /\ Handled(draw(Fresh, clock), frame_pending)
    /\ op' = Op("draw")
    /\ UNCHANGED <<unit_vars, pa, touch_vars, config, bridge_vars, loop_vars>>

TouchDown(point) ==
    /\ Dispatching /\ ~touching /\ Input
    /\ touching' = TRUE
    /\ finger' = point
    /\ Handled(touch_down(Fresh, point, clock), frame_pending)
    /\ op' = Op("touch_down")
    /\ UNCHANGED <<unit_vars, pa, config, bridge_vars, loop_vars>>

TouchMotion(delta) ==
    /\ Dispatching /\ touching /\ Input
    /\ finger' = Point(finger.x + delta.x, finger.y + delta.y)
    /\ Handled(touch_motion(Fresh, config, finger', clock), frame_pending)
    /\ op' = Op("touch_motion")
    /\ UNCHANGED <<unit_vars, pa, touching, config, bridge_vars, loop_vars>>

TouchUp(wall) ==
    /\ Dispatching /\ touching /\ Input
    /\ touching' = FALSE
    /\ Handled(touch_up(Fresh, wall, clock), frame_pending)
    /\ op' = Op("touch_up")
    /\ UNCHANGED <<unit_vars, pa, finger, config, bridge_vars, loop_vars>>

Configure(size) ==
    /\ Dispatching /\ Input
    /\ Handled(set_size(Fresh, size, clock), frame_pending)
    /\ op' = Op("set_size")
    /\ UNCHANGED <<unit_vars, pa, touch_vars, config, bridge_vars, loop_vars>>

ScaleChanged(scale) ==
    /\ Dispatching /\ Input
    /\ Handled(set_scale_factor(Fresh, scale, clock), frame_pending)
    /\ op' = Op("set_scale_factor")
    /\ UNCHANGED <<unit_vars, pa, touch_vars, config, bridge_vars, loop_vars>>

ConfigChanged(cfg) ==
    /\ Dispatching /\ Input /\ cfg # config
    /\ config' = cfg
    /\ Handled(update_config(Fresh, cfg, clock), frame_pending)
    /\ op' = Op("update_config")
    /\ UNCHANGED <<unit_vars, pa, touch_vars, bridge_vars, loop_vars>>

\* The channel source's callback on ChannelEvent::Msg.
ChannelMsg(play_ok) ==
    /\ Dispatching /\ channel # <<>>
    /\ LET msg == recv(channel)
       IN  /\ channel' = rest(channel)
           /\ op' = [name |-> IF msg.type = "Ring" THEN "ring" ELSE "set_alarms",
                     msg |-> msg,
                     expected |-> IF produced = <<>> THEN NoEvent ELSE Head(produced),
                     prior |-> "none"]
           /\ first_handled' = IF first_handled = NoEvent THEN msg ELSE first_handled
           /\ Handled(IF msg.type = "Ring"
                      THEN ring(Fresh, msg.alarm, play_ok, clock)
                      ELSE set_alarms(Fresh, msg.alarms, clock),
                      frame_pending)
    /\ produced' = IF produced = <<>> THEN produced ELSE Tail(produced)
    /\ UNCHANGED <<unit_vars, pa, touch_vars, n_inputs, config, worker, tx_alive, subscriber,
                   loop_vars>>

\* The channel source's callback on ChannelEvent::Closed.
ChannelClosed ==
    /\ Dispatching /\ channel = <<>> /\ ~tx_alive /\ ~terminated
    /\ terminated' = TRUE
    /\ op' = Op("closed")
    /\ UNCHANGED <<unit_vars, tasks, pa, window, frame_pending, touch_vars, n_inputs, clock, config,
                   bridge_vars, loop_pc, late_dispatches>>

----------------------------------------------------------------------------
(* The listener thread (src/main.rs, the task of spawn_listener).          *)

present_vars == <<window, frame_pending, touch_vars, clock, config, loop_vars, op, tasks>>

WorkerAlive == ~window.panicked /\ loop_pc # "exited"

\* The task that ends on the failure while the sender stays alive.
WorkerNewFailed_KeepsSender ==
    /\ WorkerAlive /\ worker = "new"
    /\ worker' = "failed"
    /\ UNCHANGED <<unit_vars, pa, present_vars, n_inputs, channel, tx_alive, subscriber, produced,
                   first_handled>>

\* Subscriber::new().await failed: the task returns and the sender is dropped.
WorkerNewFailed ==
    /\ WorkerAlive /\ worker = "new"
    /\ worker' = "failed"
    /\ tx_alive' = FALSE
    /\ UNCHANGED <<unit_vars, pa, present_vars, n_inputs, channel, subscriber, produced,
                   first_handled>>

\* The task going to its loop without sending the snapshot.
WorkerNew_SkipsSnapshot ==
    /\ WorkerAlive /\ worker = "new"
    /\ worker' = "next"
    /\ UNCHANGED <<unit_vars, pa, present_vars, n_inputs, channel, tx_alive, subscriber, produced,
                   first_handled>>

\* Subscriber::new().await succeeded: subscriber.alarms().to_vec() is sent.
WorkerNew ==
    /\ WorkerAlive /\ worker = "new"
    /\ worker' = "next"
    /\ channel' = send(channel, AlarmsChanged(subscriber.alarms))
    /\ produced' = Append(produced, AlarmsChanged(subscriber.alarms))
    /\ UNCHANGED <<unit_vars, pa, present_vars, n_inputs, tx_alive, subscriber, first_handled>>

\* subscriber.next().await returned Some(event): its normalized copy is sent.
WorkerNext(event) ==
    /\ WorkerAlive /\ worker = "next" /\ Input
    /\ channel' = send(channel, normalized(event))
    /\ produced' = Append(produced, event)
    /\ UNCHANGED <<unit_vars, pa, present_vars, worker, tx_alive, subscriber, first_handled>>

\* The listener thread unwinds (a panic below subscriber.next()): the sender
\* is dropped with it.
WorkerAborts ==
    /\ WorkerAlive /\ worker = "next" /\ Input
    /\ worker' = "exited"
    /\ tx_alive' = FALSE
    /\ UNCHANGED <<unit_vars, pa, present_vars, channel, subscriber, produced, first_handled>>

\* subscriber.next().await returned None: the loop calls next() again.
WorkerNextNone ==
    /\ WorkerAlive /\ worker = "next"
    /\ UNCHANGED vars

\* The loop that is left when the stream has ended: the task returns and the
\* sender is dropped.
StreamEnds_LeavesLoop ==
    /\ WorkerAlive /\ worker = "next"
    /\ worker' = "exited"
    /\ tx_alive' = FALSE
    /\ UNCHANGED <<unit_vars, pa, present_vars, n_inputs, channel, subscriber, produced,
                   first_handled>>

\* subscriber.next().await returned None for the first time, the stream has
\* ended: nothing is sent and the loop calls next() again ("polling").
StreamEnds ==
    /\ WorkerAlive /\ worker = "next"
    /\ worker' = "polling"
    /\ UNCHANGED <<unit_vars, pa, present_vars, n_inputs, channel, tx_alive, subscriber,
                   produced, first_handled>>

\* next() of the ended stream returns None again, and the loop calls it again.
WorkerPolls ==
    /\ WorkerAlive /\ worker = "polling"
    /\ UNCHANGED vars

----------------------------------------------------------------------------
(* The task pool: the store tasks the handlers spawned.                    *)

\* A task that reports its failure to the list view.
StoreTaskDone_ReportsBack(ok) ==
    /\ WorkerAlive /\ tasks.pending > 0
    /\ tasks' = [pending |-> tasks.pending - 1,
                 errors |-> tasks.errors + (IF ok THEN 0 ELSE 1)]
    /\ window' = IF ok THEN window ELSE [window EXCEPT !.list_alarms.dirty = TRUE]
    /\ UNCHANGED <<unit_vars, pa, frame_pending, touch_vars, n_inputs, clock, config,
                   bridge_vars, loop_vars, op>>

\* A spawned task ends: Alarms.remove(id) or Alarms.add(alarm) returned, and
\* an error is logged.
StoreTaskDone(ok) ==
    /\ WorkerAlive /\ tasks.pending > 0
    /\ tasks' = [pending |-> tasks.pending - 1,
                 errors |-> tasks.errors + (IF ok THEN 0 ELSE 1)]
    /\ UNCHANGED <<unit_vars, pa, window, frame_pending, touch_vars, n_inputs, clock, config,
                   bridge_vars, loop_vars, op>>

----------------------------------------------------------------------------
(* AlarmSound::play(), step by step (alarm/src/audio.rs).                  *)

main_vars ==
    <<window, frame_pending, touch_vars, n_inputs, clock, config, bridge_vars,
      loop_vars, op, tasks, unit_vars>>

\* Mainloop::new().ok_or(Error::PulseaudioConnection)?
MainloopNew(ok) ==
    /\ pa.pc = "idle"
    /\ pa' = IF ok
             THEN At(Did(pa, "mainloop_new", "ok"), "context")
             ELSE PulseaudioError(Did(pa, "mainloop_new", "failed"))
    /\ UNCHANGED main_vars

\* Context::new(&mainloop, crate_name).ok_or(Error::PulseaudioConnection)?
ContextNew(ok) ==
    /\ pa.pc = "context"
    /\ pa' = IF ok
             THEN At(Did(pa, "context_new", "ok"), "connect")
             ELSE PulseaudioError(Did(pa, "context_new", "failed"))
    /\ UNCHANGED main_vars

\* context.connect(None, ContextFlagSet::NOFLAGS, None)?
ContextConnect(ok) ==
    /\ pa.pc = "connect"
    /\ pa' = IF ok
             THEN At(Did(pa, "context_connect", "ok"), "wait")
             ELSE PulseaudioError(Did(pa, "context_connect", "failed"))
    /\ UNCHANGED main_vars

\* The wait that takes Terminated for a state to wait in.
ConnectDispatch_AwaitsTerminated(result, state) ==
    /\ pa.pc = "wait" /\ pa.waits < MaxWait
    /\ LET p1 == [Did(pa, "iterate", result) EXCEPT !.waits = pa.waits + 1]
           p2 == Did(p1, "state", state)
       IN  pa' = IF ~dispatch(result) THEN PulseaudioAbort(p1)
                 ELSE IF state = "Ready" THEN At(Did(p2, "connected", ""), "set_volume")
                 ELSE IF state = "Failed" THEN PulseaudioAbort(p2)
                 ELSE p2
    /\ UNCHANGED main_vars

\* The wait with a timeout: a state that is neither Ready nor final ends it.
ConnectDispatch_GivesUp(result, state) ==
    /\ pa.pc = "wait" /\ pa.waits < MaxWait
    /\ LET p1 == [Did(pa, "iterate", result) EXCEPT !.waits = pa.waits + 1]
           p2 == Did(p1, "state", state)
       IN  pa' = IF ~dispatch(result) THEN PulseaudioAbort(p1)
                 ELSE IF state = "Ready" THEN At(Did(p2, "connected", ""), "set_volume")
                 ELSE PulseaudioAbort(p2)
    /\ UNCHANGED main_vars

\* One iteration of the wait of connect(): dispatch()?, then the match on
\* context.get_state().
ConnectDispatch(result, state) ==
    /\ pa.pc = "wait" /\ pa.waits < MaxWait
    /\ LET p1 == [Did(pa, "iterate", result) EXCEPT !.waits = pa.waits + 1]
           p2 == Did(p1, "state", state)
       IN  pa' = IF ~dispatch(result) THEN PulseaudioAbort(p1)
                 ELSE IF state = "Ready" THEN At(Did(p2, "connected", ""), "set_volume")
                 ELSE IF state \in {"Failed", "Terminated"} THEN PulseaudioAbort(p2)
                 ELSE p2
    /\ UNCHANGED main_vars

\* set_volume(100) up to introspect.set_sink_volume_by_index(0, &volumes, None).
SetVolume ==
    /\ pa.pc = "set_volume"
    /\ pa' = At(Did(pa, "set_sink_volume", "100"), "flush")
    /\ UNCHANGED main_vars

\* set_volume() ending with one dispatch less.
SetVolumeDispatch_Twice(result) ==
    /\ pa.pc = "flush"
    /\ LET p1 == [Did(pa, "iterate", result) EXCEPT !.flushed = pa.flushed + 1]
       IN  pa' = IF ~dispatch(result) THEN PulseaudioAbort(p1)
                 ELSE IF p1.flushed = 2 THEN At(drop(p1), "stream")
                 ELSE p1
    /\ UNCHANGED main_vars

\* The dispatches that end set_volume(): self.dispatch()?; self.dispatch()?;
\* self.dispatch(). The struct is dropped when set_volume() has returned.
SetVolumeDispatch(result) ==
    /\ pa.pc = "flush"
    /\ LET p1 == [Did(pa, "iterate", result) EXCEPT !.flushed = pa.flushed + 1]
       IN  pa' = IF ~dispatch(result) THEN PulseaudioAbort(p1)
                 ELSE IF p1.flushed = 3 THEN At(drop(p1), "stream")
                 ELSE p1
    /\ UNCHANGED main_vars

\* OutputStreamBuilder::open_default_stream()? and the sink: play() returns.
OpenStream(ok) ==
    /\ pa.pc = "stream"
    /\ pa' = IF ok
             THEN [At(Did(Did(pa, "open_stream", "ok"), "sink", ""), "done")
                      EXCEPT !.result = "Ok"]
             ELSE [At(Did(pa, "open_stream", "failed"), "done") EXCEPT !.result = "Err"]
    /\ UNCHANGED main_vars

NextAudio ==
    \/ \E ok \in BOOLEAN : MainloopNew(ok)
    \/ \E ok \in BOOLEAN : ContextNew(ok)
    \/ \E ok \in BOOLEAN : ContextConnect(ok)
    \/ \E r \in IterateResults, st \in PulseStates : ConnectDispatch(r, st)
    \/ SetVolume
    \/ \E r \in IterateResults : SetVolumeDispatch(r)
    \/ \E ok \in BOOLEAN : OpenStream(ok)

SpecAudio == Init /\ [][NextAudio]_vars

\* The presentation thread runs: once connect() has returned, the calls that
\* follow it are made and return. The wait of connect() is left to the server.
SpecAudioFair ==
    /\ SpecAudio
    /\ WF_vars(SetVolume)
    /\ WF_vars(\E r \in IterateResults : SetVolumeDispatch(r))
    /\ WF_vars(\E ok \in BOOLEAN : OpenStream(ok))

----------------------------------------------------------------------------

Next ==
    \/ DispatchReturns \/ Tick
    \/ Frame \/ Unstall
    \/ \E p \in Points : TouchDown(p)
    \/ \E d \in Deltas : TouchMotion(d)
    \/ \E t \in WallTimes : TouchUp(t)
    \/ \E z \in Sizes : Configure(z)
    \/ \E f \in Scales : ScaleChanged(f)
    \/ \E c \in Configs : ConfigChanged(c)
    \/ \E ok \in BOOLEAN : ChannelMsg(ok)
    \/ ChannelClosed
    \/ WorkerNewFailed \/ WorkerNew
    \/ \E e \in Events : WorkerNext(e)
    \/ WorkerNextNone \/ WorkerAborts

Spec == Init /\ [][Next]_vars

\* The channel source's callback runs when a closed channel is to be reported,
\* and dispatch() returns.
SpecFair == Spec /\ WF_vars(ChannelClosed) /\ WF_vars(DispatchReturns)

\* The bridge with a listener thread that does not panic: the subscriber is
\* constructed or not, produces events, and its stream may end.
NextBridge ==
    \/ DispatchReturns
    \/ Frame
    \/ \E ok \in BOOLEAN : ChannelMsg(ok)
    \/ ChannelClosed
    \/ WorkerNewFailed \/ WorkerNew
    \/ \E e \in Events : WorkerNext(e)
    \/ WorkerNextNone
    \/ StreamEnds \/ WorkerPolls

SpecBridge == Init /\ [][NextBridge]_vars

\* The window's public methods called in any order: draw() directly as well.
NextDirect == Next \/ Draw

SpecDirect == Init /\ [][NextDirect]_vars

----------------------------------------------------------------------------
(* Taps: the user taps buttons, the daemon reports, the store tasks end.   *)

\* The window once the list view was drawn and its new-alarm button then tapped
\* at local time wall, field by field: the first unstall() draws the list, which
\* takes the window's size and requests a frame; touch_down() records the press
\* in the list; touch_up() gets CreateAlarmView from the list, resets the create
\* view and marks the window dirty, and its unstall() finds the window running.
CreateShown(wall) ==
    [WindowNew(DefaultConfig) EXCEPT
        !.stalled = FALSE, !.initial_draw_done = TRUE, !.dirty = TRUE,
        !.view = "CreateAlarm",
        !.list_alarms = [@ EXCEPT !.size = DefaultSize, !.dirty = FALSE,
                                  !.touch_state.start = PBack,
                                  !.touch_state.point = PBack],
        !.create_alarm = reset(@, wall),
        !.fx = <<Fx("dirty", ""), Fx("unstall", "running")>>]

\* The program with the create view selected and its first frame pending;
\* events are counted from here.
InitCreate ==
    /\ window = CreateShown(WallTime(19723, 8, 0, 0))
    /\ frame_pending = 1
    /\ touching = FALSE
    /\ finger = PBack
    /\ n_inputs = 0
    /\ clock = 0
    /\ config = DefaultConfig
    /\ worker = "new"
    /\ channel = <<>>
    /\ tx_alive = TRUE
    /\ subscriber \in {[alarms |-> l] : l \in AlarmLists}
    /\ produced = <<>>
    /\ terminated = FALSE
    /\ loop_pc = "dispatch"
    /\ late_dispatches = 0
    /\ first_handled = NoEvent
    /\ op = Op("touch_up")
    /\ tasks = [pending |-> 0, errors |-> 0]
    /\ pa = PulseaudioIdle
    /\ sv = VelocityIdle
    /\ sel = SelectionIdle
    /\ pressed = NoOrigin

NextTaps ==
    \/ Frame
    \/ \E p \in Points : TouchDown(p)
    \/ \E t \in WallTimes : TouchUp(t)
    \/ \E ok \in BOOLEAN : ChannelMsg(ok)
    \/ WorkerNew
    \/ \E e \in Events : WorkerNext(e)
    \/ \E ok \in BOOLEAN : StoreTaskDone(ok)

SpecTaps == (Init \/ InitCreate) /\ [][NextTaps]_vars

----------------------------------------------------------------------------
(* Scrolling: the user drags and flicks, the surface is resized and        *)
(* rescaled, the daemon reports its list, and the compositor delivers      *)
(* every frame it was asked for.                                           *)

\* What a motion event moves the touch point by: a drag of 8 pixels, a flick
\* of 40.
Flicks == {Point(0, 8), Point(0, -40)}

NextScroll ==
    \/ Frame
    \/ \E p \in Points : TouchDown(p)
    \/ \E d \in Flicks : TouchMotion(d)
    \/ \E t \in WallTimes : TouchUp(t)
    \/ \E z \in Sizes : Configure(z)
    \/ \E f \in Scales : ScaleChanged(f)
    \/ WorkerNew
    \/ \E ok \in BOOLEAN : ChannelMsg(ok)

SpecScroll == (Init \/ InitCreate) /\ [][NextScroll]_vars

\* A frame callback is outstanding and its draw() would change the state: a
\* draw() that renders what it rendered before, from the same state, is a
\* step that cannot be told from none.
FrameEnabled ==
    /\ Dispatching /\ frame_pending > 0
    /\ LET w == draw(Fresh, clock + 1)
           origin == Earliest(Baselines(w) \cup {clock + 1})
       IN  <<Rebased(w, origin), clock + 1 - origin,
             frame_pending - 1 + Count(w.fx, "frame"), Op("frame")>>
               # <<window, clock, frame_pending, op>>

\* The compositor delivers every frame callback it was asked for: Frame is
\* weakly fair, with what enables it written out.
FramesDelivered ==
    \/ []<>(~FrameEnabled)
    \/ []<><<op'.name = "frame">>_vars

SpecScrollFair == SpecScroll /\ FramesDelivered

----------------------------------------------------------------------------
(* Alarms that ring one after the other: the daemon sends Ring events, the *)
(* user presses and releases, the compositor delivers frames. Where each   *)
(* touch began is kept.                                                    *)

\* The environment delivers one more event of such a run.
RingInput == n_inputs < MaxTaps /\ n_inputs' = n_inputs + 1

\* A point of the stop button and of the list's alarm area, the new-alarm
\* button of the list, a point off every button.
RingPoints == {PBack, PConfirm, PWheel}

\* touch_down(): the view shown and the point are noted.
PressAt(point) ==
    /\ Dispatching /\ ~touching /\ RingInput
    /\ touching' = TRUE
    /\ finger' = point
    /\ Handled(touch_down(Fresh, point, clock), frame_pending)
    /\ op' = Op("touch_down")
    /\ pressed' = [view |-> window.view, point |-> point,
                    row |-> RowAt(window.list_alarms, point),
                    delete |-> OnDeleteIcon(window.list_alarms, point),
                    far |-> FALSE]
    /\ UNCHANGED <<sv, sel, pa, config, bridge_vars, loop_vars>>

\* touch_up() where the finger rests.
Release(wall) ==
    /\ Dispatching /\ touching /\ RingInput
    /\ touching' = FALSE
    /\ Handled(touch_up(Fresh, wall, clock), frame_pending)
    /\ op' = Op("touch_up")
    /\ UNCHANGED <<unit_vars, pa, finger, config, bridge_vars, loop_vars>>

\* subscriber.next().await returned a Ring event.
RingSent(alarm) ==
    /\ WorkerAlive /\ worker = "next" /\ RingInput
    /\ channel' = send(channel, normalized(Ring(alarm)))
    /\ produced' = Append(produced, Ring(alarm))
    /\ UNCHANGED <<unit_vars, pa, present_vars, worker, tx_alive, subscriber, first_handled>>

NextRing ==
    \/ Frame
    \/ \E p \in RingPoints : PressAt(p)
    \/ Release(WallTime(19723, 8, 0, 0))
    \/ \E ok \in BOOLEAN : ChannelMsg(ok)
    \/ WorkerNew
    \/ RingSent(A1)

SpecRing == Init /\ [][NextRing]_vars

\* subscriber.next().await returned an AlarmsChanged event.
ListSent(alarms) ==
    /\ WorkerAlive /\ worker = "next" /\ RingInput
    /\ channel' = send(channel, normalized(AlarmsChanged(alarms)))
    /\ produced' = Append(produced, AlarmsChanged(alarms))
    /\ UNCHANGED <<unit_vars, pa, present_vars, worker, tx_alive, subscriber, first_handled>>

\* The same run with the daemon reporting, at any time, that the alarm list
\* is now a1, a2: a change for two of the three snapshots.
NextRingLists ==
    \/ NextRing
    \/ ListSent(<<A1, A2>>)

SpecRingLists == Init /\ [][NextRingLists]_vars

----------------------------------------------------------------------------
(* The alarm list under the finger: presses on and off the rows, drags     *)
(* within and beyond the tap distance, releases, a smaller surface, and    *)
(* the daemon's list, which may shrink to one alarm.                       *)

PRow == Point(100, 600)

PAbove == Point(285, 360)

PSmall == Point(100, 100)

\* The delete icon of the bottommost alarm and a point of that alarm off the
\* icon, a point three rows higher, and a point of the bottommost alarm of the
\* smaller surface.
ListPoints == {PDelete, PRow, PAbove, PSmall}

\* Motions within the tap distance and beyond it, down and up.
Drags == {Point(0, 3), Point(0, 8), Point(0, -8)}

\* touch_motion() by delta; whether the finger got farther from where it was
\* pressed than a tap may is noted.
Drag(delta) ==
    /\ Dispatching /\ touching /\ RingInput
    /\ finger' = Point(finger.x + delta.x, finger.y + delta.y)
    /\ Handled(touch_motion(Fresh, config, finger', clock), frame_pending)
    /\ op' = Op("touch_motion")
    /\ LET dx == (finger'.x - pressed.point.x) * window.list_alarms.scale
           dy == (finger'.y - pressed.point.y) * window.list_alarms.scale
       IN  pressed' = [pressed EXCEPT
                          !.far = @ \/ dx * dx + dy * dy > config.input.max_tap_distance]
    /\ UNCHANGED <<sv, sel, pa, touching, config, bridge_vars, loop_vars>>

\* touch_up() once more, with no touch_down() since the last one.
ReleaseAgain(wall) ==
    /\ Dispatching /\ ~touching /\ op.name = "touch_up" /\ RingInput
    /\ Handled(touch_up(Fresh, wall, clock), frame_pending)
    /\ op' = [Op("touch_up") EXCEPT !.prior = "touch_up"]
    /\ UNCHANGED <<unit_vars, pa, touch_vars, config, bridge_vars, loop_vars>>

NextList ==
    \/ Frame
    \/ \E p \in ListPoints : PressAt(p)
    \/ \E d \in Drags : Drag(d)
    \/ Release(WallTime(19723, 8, 0, 0))
    \/ ReleaseAgain(WallTime(19723, 8, 0, 0))
    \/ Configure(Size(360, 200))
    \/ WorkerNew
    \/ ListSent(<<A1>>)
    \/ \E ok \in BOOLEAN : ChannelMsg(ok)

SpecList == Init /\ [][NextList]_vars

----------------------------------------------------------------------------
(* ScrollVelocity on its own (src/ui/mod.rs): set() and apply() in any     *)
(* order, with any time between them.                                      *)

whole_vars ==
    <<window, frame_pending, touch_vars, n_inputs, clock, config, bridge_vars,
      loop_vars, op, tasks, pa, pressed>>

\* Velocities a touch release sets, in fixed point: none, half a pixel, one
\* pixel, two and a half, ten.
Velocities == {0, 8, -8, 16, 40, -40, 160, -160}

Frictions == {Friction, [num |-> 3, den |-> 4]}

VelocityInput(f) == [InputConfig(90, 480) EXCEPT !.velocity_friction = f]

\* set(delta), under a configuration whose friction is f.
VelocitySet(delta, f) ==
    /\ sv' = [v |-> set(sv.v, delta), f |-> f, v0 |-> delta, sum |-> 0, now |-> 0,
              idle |-> 0, op |-> "set", before |-> sv.v, added |-> 0]
    /\ UNCHANGED <<whole_vars, sel>>

\* apply(), dt velocity intervals after the last call; instants are kept
\* relative to that call.
VelocityApply(dt) ==
    /\ dt = 0 => sv.idle < MaxIdle
    /\ LET before == Rebase(sv.v, sv.now)
           a == apply(before, VelocityInput(sv.f), sv.sum, dt)
       IN  sv' = [sv EXCEPT !.v = a.v, !.sum = a.scroll_offset, !.now = dt,
                            !.idle = IF dt = 0 THEN @ + 1 ELSE @,
                            !.op = "apply", !.before = before,
                            !.added = a.scroll_offset - sv.sum]
    /\ UNCHANGED <<whole_vars, sel>>

NextVelocity ==
    \/ \E delta \in Velocities, f \in Frictions : VelocitySet(delta, f)
    \/ \E dt \in 0..MaxStep : VelocityApply(dt)

SpecVelocity == Init /\ [][NextVelocity]_vars

\* Time advances between the calls of apply().
SpecVelocityFair == SpecVelocity /\ WF_vars(\E dt \in 1..MaxStep : VelocityApply(dt))

----------------------------------------------------------------------------
(* The create view on its own (src/ui/create_alarm.rs): the wheels are set *)
(* to any time they offer, then the confirm button or a quick button is    *)
(* released.                                                               *)

\* The current local date and time at the release: a morning on the hour, the
\* seconds around a wheel minute, the first and the last second of a day.
Nows ==
    {WallTime(19723, 8, 0, 0), WallTime(19723, 7, 5, 0), WallTime(19723, 7, 5, 1),
     WallTime(19723, 7, 4, 59), WallTime(19723, 0, 0, 0), WallTime(19723, 23, 59, 59),
     WallTime(19724, 23, 57, 30)}

\* Minutes a quick button is configured with: the defaults, ten minutes, and
\* one that is no multiple of the wheel's step.
Intervals == {90, 480, 10, 7}

\* A point of the first quick button at the default size.
PQuick == Point(80, 615)

\* The view drawn at the default size, then touched at `point`.
Pressed(ca, point) ==
    create_touch_down([ca EXCEPT !.size = DefaultSize, !.scale = 1, !.dirty = FALSE],
                      point)

\* The wheels of a view just built scrolled to hour h and the m-th minute
\* they offer.
SelectTime(h, m) ==
    /\ sel.op = "new"
    /\ sel' = [SelectionIdle EXCEPT
                  !.ca = [@ EXCEPT
                            !.hour_carousel = scroll_to(@, h),
                            !.minute_carousel = scroll_to(@, m)],
                  !.op = "select", !.hour = h, !.minute = 5 * m]
    /\ UNCHANGED <<whole_vars, sv>>

\* touch_up() of a touch that began and ended on the confirm button.
ConfirmTime(now) ==
    /\ sel.op = "select"
    /\ LET r == create_touch_up(Pressed(sel.ca, PConfirm),
                                InputConfig(90, 480), now)
       IN  sel' = [sel EXCEPT !.ca = r.view, !.op = "confirm", !.now = now,
                              !.action = r.action, !.fx = r.fx]
    /\ UNCHANGED <<whole_vars, sv>>

\* touch_up() of a touch that began on the first quick button, configured
\* with k minutes.
QuickAdd(k) ==
    /\ sel.op = "select"
    /\ LET r == create_touch_up(Pressed(sel.ca, PQuick),
                                InputConfig(k, 480), sel.now)
       IN  sel' = [sel EXCEPT !.ca = r.view, !.op = "quick", !.k = k,
                              !.action = r.action, !.fx = r.fx]
    /\ UNCHANGED <<whole_vars, sv>>

NextSelect ==
    \/ \E h \in 0..23, m \in 0..11 : SelectTime(h, m)
    \/ \E now \in Nows : ConfirmTime(now)
    \/ \E k \in Intervals : QuickAdd(k)

SpecSelect == Init /\ [][NextSelect]_vars

\* The local times the create view is opened at: every minute of the first
\* hour of a day, of a morning hour and of the last hour, on the minute, a
\* second after it and a second before the next.
ResetNows ==
    {WallTime(19723, h, m, x) : h \in {0, 7, 23}, m \in 0..59, x \in {0, 1, 59}}

\* reset() of a view just built, at local time now.
ResetTime(now) ==
    /\ sel.op = "new"
    /\ sel' = [SelectionIdle EXCEPT !.ca = reset(@, now), !.op = "reset", !.now = now]
    /\ UNCHANGED <<whole_vars, sv>>

\* The view is drawn, and the confirm button pressed and released with the
\* clock still at the time of the reset.
ConfirmReset ==
    /\ sel.op = "reset"
    /\ LET input == InputConfig(90, 480)
           drawn == create_draw(sel.ca, DefaultSize, 1, input, 0)
           r == create_touch_up(create_touch_down(drawn, PConfirm), input, sel.now)
       IN  sel' = [sel EXCEPT !.ca = r.view, !.op = "confirm_reset",
                              !.action = r.action, !.fx = r.fx]
    /\ UNCHANGED <<whole_vars, sv>>

NextReset ==
    \/ \E now \in ResetNows : ResetTime(now)
    \/ ConfirmReset

SpecReset == Init /\ [][NextReset]_vars

----------------------------------------------------------------------------
(* The redraw protocol of the window.                                      *)

Logged(fx, kind, arg) == \E i \in 1..Len(fx) : fx[i].kind = kind /\ fx[i].arg = arg

Last(seq) == seq[Len(seq)]

\* What draw() issued: the log after its entry, the flush of unstall() aside.
DrawBody(fx) ==
    LET k == Kinds(fx)
        d == CHOOSE i \in 1..Len(k) : k[i] = "draw"
        after == SubSeq(k, d + 1, Len(k))
    IN  IF after # <<>> /\ Last(after) = "flush"
        THEN SubSeq(after, 1, Len(after) - 1)
        ELSE after

\* The view on display.
ActiveView(w) ==
    CASE w.view = "ListAlarms" -> w.list_alarms
      [] w.view = "CreateAlarm" -> w.create_alarm
      [] w.view = "RingAlarm" -> w.ring_alarm

WindowHandlers ==
    {"set_alarms", "ring", "set_size", "set_scale_factor", "update_config",
     "touch_down", "touch_motion", "touch_up", "frame"}

\* The aggregated dirty predicate holds while the window is stalled and no
\* frame callback is outstanding: nothing will render what is pending.
LostUpdate == dirty(window) /\ window.stalled /\ frame_pending = 0

\* C1 as stated: after any handler of the window has returned, starting from
\* the freshly constructed window, the window is never left with the
\* aggregated dirty predicate true while it is stalled and no frame callback
\* is outstanding.
C1_NoLostUpdate ==
    (op.name \in WindowHandlers /\ ~window.panicked) => ~LostUpdate

\* C1 as amended: after a handler has returned, the window is never left so
\* once it has rendered or when the handler called unstall(); the freshly
\* constructed window stays dirty and stalled through handlers that return
\* before unstall().
C1_NoLostUpdateOnceDrawn ==
    (op.name \in WindowHandlers /\ ~window.panicked
         /\ (window.initial_draw_done \/ Has(window.fx, "unstall")))
        => ~LostUpdate

C1_Witness ==
    /\ op.name = "set_size"
    /\ Logged(window.fx, "unstall", "stalled")
    /\ Logged(window.fx, "draw", "dirty")
    /\ n_inputs >= 2
    /\ frame_pending = 1

\* C2: a draw() that finds the aggregated dirty predicate false sets stalled
\* and issues no set_destination, damage, render, frame request or commit.
C2_CleanDrawStalls ==
    Logged(window.fx, "draw", "clean")
        => /\ window.stalled
           /\ \A k \in {"set_destination", "damage", "render", "frame", "commit"} :
                  ~Has(window.fx, k)

C2_Witness ==
    /\ op.name = "frame"
    /\ Logged(window.fx, "draw", "clean")
    /\ window.initial_draw_done

\* C3: a draw() that finds the aggregated dirty predicate true clears the
\* window's dirty bit, renders the view on display (at the window's physical
\* size and scale), requests exactly one frame and commits exactly once, with
\* damage and render before the frame request and the commit last.
C3_DirtyDrawRenders ==
    Logged(window.fx, "draw", "dirty")
        => /\ ~window.dirty
           /\ ActiveView(window).size
                  = Size(window.size.width * window.scale, window.size.height * window.scale)
           /\ ActiveView(window).scale = window.scale
           /\ Count(window.fx, "damage") = 1
           /\ Count(window.fx, "render") = 1
           /\ Count(window.fx, "frame") = 1
           /\ Count(window.fx, "commit") = 1
           /\ Before(window.fx, "damage", "frame")
           /\ Before(window.fx, "render", "frame")
           /\ Last(DrawBody(window.fx)) = "commit"

C3_Witness ==
    /\ op.name = "frame"
    /\ Logged(window.fx, "draw", "dirty")
    /\ is_moving(window.list_alarms.velocity)

C5_UnstallContract ==
    /\ [](/\ Logged(window.fx, "unstall", "stalled")
                => /\ Count(window.fx, "draw") = 1
                   /\ Count(window.fx, "flush") = 1
                   /\ Last(Kinds(window.fx)) = "flush"
                   /\ Before(window.fx, "unstall", "draw")
          /\ Logged(window.fx, "unstall", "running")
                => /\ ~Has(window.fx, "draw")
                   /\ ~Has(window.fx, "flush")
                   /\ Last(Kinds(window.fx)) = "unstall")
    /\ [][(op'.name = "unstall" /\ ~window.stalled)
              => /\ [window' EXCEPT !.fx = <<>>] = [window EXCEPT !.fx = <<>>]
                 /\ frame_pending' = frame_pending]_vars

C5_Witness ==
    /\ op.name = "unstall"
    /\ Logged(window.fx, "unstall", "stalled")
    /\ Last(Kinds(window.fx)) = "flush"

\* C6: two consecutive calls of unstall(), with no other handler and no frame
\* callback between them, render at most once (at most one frame request and
\* one commit).
C6_AtMostOneRender ==
    (op.name = "unstall" /\ op.prior # "none")
        => \A k \in {"render", "frame", "commit"} :
               Count(window.fx, k) + (IF op.prior = "unstall_rendered" THEN 1 ELSE 0) <= 1

C6_Witness ==
    /\ op.name = "unstall"
    /\ op.prior = "unstall_rendered"
    /\ window.fx = <<Fx("unstall", "running")>>

\* C7 as stated: every handler of an external mutation sets the window's own
\* dirty bit and then calls unstall().
C7_WindowDirtyThenUnstall ==
    (op.name \in {"set_alarms", "touch_down", "touch_motion", "touch_up"}
         /\ ~window.panicked)
        => /\ Has(window.fx, "dirty")
           /\ Has(window.fx, "unstall")
           /\ Before(window.fx, "dirty", "unstall")

\* C7 as amended: set_alarms() and the touch handlers call unstall() exactly
\* once, after their change, and set_alarms(), touch_down() and touch_motion()
\* never set the window's own dirty bit; that bit is set, before the one
\* unstall(), exactly by a resize, a scale change, a change of the drawn
\* configuration and a switch of the view, and set_size(),
\* set_scale_factor(), update_config() and ring() call unstall() only then.
C7_MutationThenUnstall ==
    /\ [](/\ (op.name \in {"set_alarms", "touch_down", "touch_motion", "touch_up"}
                  /\ ~window.panicked)
                => /\ Count(window.fx, "unstall") = 1
                   /\ Before(window.fx, "dirty", "unstall")
                   /\ op.name # "touch_up" => ~Has(window.fx, "dirty")
          /\ op.name \in {"set_size", "set_scale_factor", "update_config", "ring"}
                => /\ Has(window.fx, "unstall") <=> Has(window.fx, "dirty")
                   /\ Count(window.fx, "unstall") <= 1
                   /\ Before(window.fx, "dirty", "unstall"))
    /\ [][(/\ op'.name \in WindowHandlers
           /\ \/ window'.size # window.size
              \/ window'.scale # window.scale
              \/ window'.view # window.view
              \/ window'.render_config.visual # window.render_config.visual)
              => /\ Count(window'.fx, "dirty") = 1
                 /\ Count(window'.fx, "unstall") = 1]_vars

C7_Witness ==
    /\ op.name = "set_alarms"
    /\ window.list_alarms.alarms # <<>>
    /\ Has(window.fx, "unstall")
    /\ ~Has(window.fx, "dirty")

----------------------------------------------------------------------------
(* The alarm event bridge and the end of the loop.                         *)

\* C8: every event the subscriber produced reaches the channel source's
\* callback exactly once and in the order produced, under any interleaving of
\* the listener thread and the loop: the events not handled yet are the
\* messages in flight, in order, and each callback is given the oldest of
\* them and runs the handler of its kind.
C8_OrderedExactlyOnce ==
    /\ channel = produced
    /\ op.name \in {"set_alarms", "ring"}
          => /\ op.expected # NoEvent
             /\ op.msg = op.expected
             /\ op.name = "ring" <=> op.msg.type = "Ring"
             /\ op.name = "set_alarms" => window.list_alarms.alarms = op.msg.alarms
             /\ op.name = "ring" => Logged(window.fx, "remove", op.msg.alarm.id)

C8_Witness ==
    /\ first_handled = AlarmsChanged(<<>>)
    /\ op.name = "ring"
    /\ op.msg = Ring(A1)
    /\ channel = <<>>

\* C9: when the subscriber was constructed, the first message on the channel
\* is AlarmsChanged(the snapshot), ahead of every forwarded event: the loop
\* never handles another message before it.
C9_SnapshotFirst ==
    /\ worker = "new" => (channel = <<>> /\ first_handled = NoEvent)
    /\ first_handled # NoEvent => first_handled = AlarmsChanged(subscriber.alarms)
    /\ (first_handled = NoEvent /\ channel # <<>>)
          => Head(channel) = AlarmsChanged(subscriber.alarms)

C9_Witness ==
    /\ first_handled = AlarmsChanged(<<A1, A2>>)
    /\ op.name = "set_alarms"
    /\ op.msg = AlarmsChanged(<<A1>>)

\* C10: the callback that observes the channel closed sets the termination
\* flag; no dispatch is entered after the cycle that observed it; every
\* message sent before the closure was handled before the flag was set.
C10_ClosedTerminates ==
    /\ op.name = "closed" => terminated
    /\ terminated => (~tx_alive /\ channel = <<>> /\ produced = <<>>)
    /\ late_dispatches = 0
    /\ loop_pc = "exited" => terminated

C10_Witness ==
    /\ loop_pc = "exited"
    /\ terminated
    /\ first_handled # NoEvent
    /\ window.list_alarms.alarms # <<>>

----------------------------------------------------------------------------
(* Failures: of the subscriber, of playback, of the store.                 *)

\* C11: when the construction of the subscriber fails, the worker sends no
\* message and does not try again, and its sender is dropped; the channel
\* source then reports the closure, the termination flag is set and the loop
\* ends (a presentation thread that panics first ends by unwinding).
C11_FailedConstruction ==
    /\ [](worker = "failed"
              => /\ channel = <<>> /\ produced = <<>> /\ first_handled = NoEvent
                 /\ ~tx_alive)
    /\ [][worker = "failed" => worker' = "failed"]_vars
    /\ worker = "failed" ~> ((terminated /\ loop_pc = "exited") \/ window.panicked)

C11_Witness ==
    /\ worker = "failed"
    /\ terminated
    /\ loop_pc = "exited"
    /\ ~window.panicked

\* C12: ring() asks for exactly one removal, of the id of the alarm it was
\* given, before it tries to play, so both when playback starts and when it
\* fails; it returns with the removal's task still on the task pool.
C12_OneRemoval ==
    /\ [](op.name = "ring"
              => /\ Count(window.fx, "remove") = 1
                 /\ Head(window.fx) = Fx("remove", op.msg.alarm.id)
                 /\ Has(window.fx, "play") \/ Has(window.fx, "play_failed"))
    /\ [][(op'.name = "ring" /\ Len(channel') < Len(channel))
              => tasks' = [tasks EXCEPT !.pending = @ + 1]]_vars

C12_Witness ==
    /\ op.name = "ring"
    /\ op.msg = Ring(A1)
    /\ window.fx = <<Fx("remove", "a1"), Fx("play_failed", "")>>
    /\ tasks.pending = 1

\* C13: when ring() has returned, the view on display is the ringing view of
\* the alarm it was given, also when playback failed to start.
C13_RingActivatesView ==
    op.name = "ring"
        => /\ window.view = "RingAlarm"
           /\ window.alarm.unix_time = op.msg.alarm.unix_time

----------------------------------------------------------------------------
(* The volume raise and the playback step of AlarmSound::play().           *)

\* The i-th call of play() failed: a constructor or the connection returned
\* an error, a dispatch iteration quit or failed, or the server was seen
\* Failed or Terminated.
PulseFailure(log, i) ==
    \/ log[i].kind \in {"mainloop_new", "context_new", "context_connect"}
          /\ log[i].arg = "failed"
    \/ log[i].kind = "iterate" /\ log[i].arg # "Success"
    \/ log[i].kind = "state" /\ log[i].arg \in {"Failed", "Terminated"}

\* C14: a failure at any step of the volume raise is logged, once, and play()
\* goes on to the playback step; play() returns the outcome of the playback
\* step whatever the volume raise did.
C14_VolumeRaiseBestEffort ==
    /\ (\E i \in 1..Len(pa.log) : PulseFailure(pa.log, i))
          => /\ Count(pa.log, "pulse_error") = 1
             /\ pa.pc \in {"stream", "done"}
    /\ pa.pc = "done"
          => /\ Count(pa.log, "open_stream") = 1
             /\ pa.result = "Ok" <=> Logged(pa.log, "open_stream", "ok")
             /\ pa.result = "Err" <=> Logged(pa.log, "open_stream", "failed")

C14_Witness ==
    /\ pa.pc = "done"
    /\ pa.result = "Ok"
    /\ Logged(pa.log, "state", "Terminated")
    /\ Has(pa.log, "pulse_error")

\* C15: connect() returns its connection right after Ready was observed and
\* only then; a dispatch iteration that quits or fails, and a state observed
\* as Failed or Terminated, end it at once with the connection dropped; any
\* other state is followed by another dispatch; the set-volume command comes
\* after an observation of Ready.
C15_ConnectWait ==
    LET log == pa.log
    IN  \A i \in 1..Len(log) :
            /\ log[i].kind = "connected" => (i > 1 /\ log[i - 1] = Fx("state", "Ready"))
            /\ log[i].kind = "set_sink_volume"
                  => \E j \in 1..(i - 1) : log[j] = Fx("state", "Ready")
            /\ log[i].kind = "state"
                  => /\ i > 1 /\ log[i - 1] = Fx("iterate", "Success")
                     /\ log[i].arg = "Ready" => (i < Len(log) /\ log[i + 1].kind = "connected")
                     /\ log[i].arg \notin {"Ready", "Failed", "Terminated"}
                           => IF i = Len(log) THEN pa.pc = "wait"
                              ELSE log[i + 1].kind = "iterate"
            /\ (PulseFailure(log, i) /\ log[i].kind \in {"iterate", "state"})
                  => /\ i < Len(log) /\ log[i + 1].kind = "disconnect"
                     /\ \A j \in (i + 1)..Len(log) :
                            log[j].kind \notin {"iterate", "connected", "set_sink_volume"}

C15_Witness ==
    /\ Logged(pa.log, "state", "Authorizing")
    /\ Logged(pa.log, "state", "SettingName")
    /\ Has(pa.log, "set_sink_volume")

\* The dispatch iterations made once the set-volume command was issued.
FlushDispatches(log) ==
    LET v == CHOOSE i \in 1..Len(log) : log[i].kind = "set_sink_volume"
    IN  Cardinality({i \in (v + 1)..Len(log) : log[i].kind = "iterate"})

\* The volume was set and the connection closed with no dispatch failing.
VolumeSet(log) ==
    Has(log, "set_sink_volume") /\ Has(log, "disconnect") /\ ~Has(log, "pulse_error")

----------------------------------------------------------------------------
(* The audio session of the ringing view.                                  *)

\* The touch about to be released began on the stop button of the ringing
\* view and is still on it.
StopTapped ==
    /\ window.view = "RingAlarm"
    /\ window.ring_alarm.touch_state.action = "Stop"
    /\ rect_contains(stop_button_rect(window.ring_alarm.size, window.ring_alarm.scale),
                     window.ring_alarm.touch_state.point)

SessionsPeak(w) ==
    IF Logged(w.fx, "play", "ringing") THEN 2
    ELSE IF w.sound \/ Has(w.fx, "drop_sound") THEN 1
    ELSE 0

\* C18 as stated: at every point, also while a Ring is handled during a ring,
\* at most one audio session is alive.
C18_OneSessionAtEveryPoint == SessionsPeak(window) <= 1

\* C18 as amended: a Ring handled during a ring starts its session while the
\* session of the view is alive, and that one is dropped before ring()
\* returns; a handler starts at most one session and drops at most one, and
\* drops none when it starts the first.
C18_OneSessionOnReturn ==
    /\ Count(window.fx, "play") <= 1
    /\ Count(window.fx, "drop_sound") <= 1
    /\ Logged(window.fx, "play", "ringing")
          => /\ Count(window.fx, "drop_sound") = 1
             /\ Before(window.fx, "play", "drop_sound")
             /\ window.sound
    /\ Logged(window.fx, "play", "silent")
          => (~Has(window.fx, "drop_sound") /\ window.sound)
    /\ (Has(window.fx, "drop_sound") /\ ~Has(window.fx, "play")) => ~window.sound

C18_Witness ==
    /\ op.name = "ring"
    /\ Logged(window.fx, "play", "ringing")
    /\ Has(window.fx, "drop_sound")
    /\ window.sound

----------------------------------------------------------------------------
(* The store tasks and the list on display.                                *)

\* C19: a store task that ends, with success or with failure, changes
\* nothing of the window, of its views or of the loop; the handler that
\* spawned it returned with the task still on the task pool.
C19_StoreTasksDetached ==
    /\ [][tasks'.pending < tasks.pending
              => /\ window' = window /\ frame_pending' = frame_pending /\ op' = op
                 /\ <<touching, finger, clock, config>>' = <<touching, finger, clock, config>>
                 /\ <<channel, terminated, loop_pc>>' = <<channel, terminated, loop_pc>>
                 /\ tasks'.pending = tasks.pending - 1]_vars
    /\ [][tasks'.pending > tasks.pending
              => /\ tasks'.pending = tasks.pending + Spawned(window'.fx)
                 /\ tasks'.errors = tasks.errors
                 /\ op'.name \in {"touch_up", "ring"}]_vars
    /\ [][(\/ op'.name = "touch_up" /\ touching /\ ~touching'
           \/ op'.name = "ring" /\ Len(channel') < Len(channel))
              => tasks'.pending = tasks.pending + Spawned(window'.fx)]_vars

C19_Witness ==
    /\ tasks = [pending |-> 0, errors |-> 1]
    /\ op.name = "touch_up"
    /\ Has(window.fx, "add")
    /\ window.view = "ListAlarms"

\* C20 as stated: once the delete button was tapped the alarm is off the list
\* of the list view, and once a new alarm was confirmed it is on it, before
\* any AlarmsChanged is handled.
C20_OptimisticList ==
    LET alarms == window.list_alarms.alarms
    IN  op.name = "touch_up"
            => \A i \in 1..Len(window.fx) :
                   /\ window.fx[i].kind = "remove"
                         => \A j \in 1..Len(alarms) : alarms[j].id # window.fx[i].arg
                   /\ window.fx[i].kind = "add"
                         => \E j \in 1..Len(alarms) : alarms[j] = window.fx[i].arg

\* C20 as amended: the list of the list view is left as it was by the tap on
\* the delete button, by the confirmation of a new alarm and by the end of
\* the store task; it changes only when an AlarmsChanged is handled, to the
\* list of that event.
C20_ListFollowsEvents ==
    [][window'.list_alarms.alarms # window.list_alarms.alarms
           => /\ op'.name = "set_alarms"
              /\ window'.list_alarms.alarms = op'.msg.alarms]_vars

C20_Witness ==
    /\ op.name = "touch_up"
    /\ \E j \in 1..Len(window.list_alarms.alarms) :
           Logged(window.fx, "remove", window.list_alarms.alarms[j].id)
    /\ tasks.errors = 0
    /\ tasks.pending = 1

----------------------------------------------------------------------------
(* ScrollVelocity: what set() and apply() keep.                            *)

\* C21: in every state a sequence of set() and apply() calls reaches,
\* is_moving() is true if and only if the stored velocity is not 0.
C21_MovingIffVelocity ==
    is_moving(sv.v) <=> sv.v.velocity # 0

\* A velocity of half a pixel, which the next apply() will drop, is moving.
C21_Witness ==
    /\ sv.op = "apply"
    /\ sv.v.velocity # 0
    /\ Abs(sv.v.velocity) <= FP
    /\ is_moving(sv.v)

\* C22: a call of apply() never makes the velocity larger in magnitude and
\* never changes its sign; and once set() is called no more while time advances
\* between the calls of apply(), the velocity comes to be exactly 0 and stays so.
C22_FrictionSlows ==
    /\ [](sv.op = "apply" => /\ Abs(sv.v.velocity) <= Abs(sv.before.velocity)
                             /\ sv.v.velocity * sv.before.velocity >= 0)
    /\ <>[][sv'.op # "set"]_vars => <>[](sv.v.velocity = 0)

\* Ten pixels per interval have come down to two and a half, or less, and on.
C22_Witness ==
    /\ sv.op = "apply"
    /\ Abs(sv.v0) = 160
    /\ sv.v.velocity # 0
    /\ Abs(sv.v.velocity) <= 40
    /\ sv.before.velocity # sv.v.velocity

\* What the snap of the last pixel per interval to 0 can cut off the sum,
\* v / (1 - f) for |v| <= 1, and a pixel for the rounding of the calls.
RestTolerance(f) == (FP * f.den) \div (f.den - f.num) + FP

\* C23: once the velocity set by set(v0) has come to rest, with time elapsed
\* between any two calls, the offset increments that the calls of apply() added
\* sum up to v0 / (1 - f), whatever the times between the calls were.
C23_SumConverges ==
    (sv.op = "apply" /\ sv.v0 # 0 /\ sv.v.velocity = 0 /\ sv.idle = 0)
        => Abs(sv.sum * (sv.f.den - sv.f.num) - sv.v0 * sv.f.den)
               <= RestTolerance(sv.f) * (sv.f.den - sv.f.num)

\* C24: set(delta) stores delta as the velocity and clears the tick baseline;
\* the first apply() after a set() with a velocity other than 0 records the
\* instant of the call as the baseline and leaves the velocity and the scroll
\* offset as they were.
C24_SetThenBaseline ==
    /\ [](sv.op = "set" => sv.v = [velocity |-> sv.v0, last_tick |-> None])
    /\ [][(sv.op = "set" /\ sv'.op = "apply" /\ sv.v.velocity # 0)
              => /\ sv'.v.velocity = sv.v.velocity
                 /\ sv'.sum = sv.sum /\ sv'.added = 0
                 /\ sv'.v.last_tick = Some(sv'.now)]_vars

\* The call after set() found a velocity and no baseline, and recorded one.
C24_Witness ==
    /\ sv.op = "apply"
    /\ sv.before = [velocity |-> sv.v0, last_tick |-> None]
    /\ sv.v0 # 0
    /\ sv.v = [velocity |-> sv.v0, last_tick |-> Some(sv.now)]
    /\ sv.now > 0
    /\ sv.sum = 0

\* C25: after an apply() that found a baseline, either the velocity is above
\* one pixel per interval in magnitude and the baseline is the instant of that
\* call, or the velocity is exactly 0 and is_moving() is false.
C25_SignificantOrStopped ==
    (sv.op = "apply" /\ sv.before.last_tick.some)
        => \/ /\ Abs(sv.v.velocity) > FP
              /\ sv.v.last_tick = Some(sv.now)
           \/ /\ sv.v.velocity = 0
              /\ ~is_moving(sv.v)

\* Friction left a velocity of at most one pixel, and apply() dropped it.
C25_Witness ==
    /\ sv.op = "apply"
    /\ sv.before.last_tick.some
    /\ Abs(sv.before.velocity) > FP
    /\ FrictionPow(sv.before.velocity, sv.f, sv.now - sv.before.last_tick.val) # 0
    /\ sv.v = ScrollVelocityDefault

----------------------------------------------------------------------------
(* CreateAlarm: the time the confirm button stages, what a quick button    *)
(* does to the wheels.                                                     *)

\* The alarm the confirm button staged.
Staged == sel.fx[1].arg

\* The date and time of day the wheels stood for at wall time `now`: today
\* unless that time of day is over already.
NextOccurrence(h, m, now) ==
    WallTime(IF h * 3600 + m * 60 < SecondOfDay(now) THEN now.day + 1 ELSE now.day,
             h, m, 0)

\* C26: confirming the selection h:m at the local time `now` stages the
\* alarm for h:m:00 of the current day if that is not earlier than the
\* current time of day, else for h:m:00 of the next day; it lies less than
\* a day ahead and never in the past.
C26_NextOccurrence ==
    sel.op = "confirm" =>
        /\ Kinds(sel.fx) = <<"add">>
        /\ Staged.unix_time = UnixTime(NextOccurrence(sel.hour, sel.minute, sel.now))
        /\ Staged.unix_time >= UnixTime(sel.now)
        /\ Staged.unix_time < UnixTime(sel.now) + 86400

\* 07:05 confirmed at 08:00:00: staged for 07:05:00 of the next day.
C26_Witness ==
    /\ sel.op = "confirm"
    /\ sel.hour = 7 /\ sel.minute = 5
    /\ sel.now = WallTime(19723, 8, 0, 0)
    /\ Kinds(sel.fx) = <<"add">>
    /\ Staged.unix_time = UnixTime(WallTime(19724, 7, 5, 0))

\* C27: a quick button configured with k minutes, released on a selection
\* h:m, leaves the wheels at hour (h + (m + k) div 60) mod 24 and minute
\* (m + k) mod 60.
C27_QuickAddSum ==
    sel.op = "quick" =>
        /\ value(sel.ca.hour_carousel) = (sel.hour + (sel.minute + sel.k) \div 60) % 24
        /\ value(sel.ca.minute_carousel) = (sel.minute + sel.k) % 60

----------------------------------------------------------------------------
(* The Ring handler and the audio server.                                  *)

\* The server was seen Ready, Failed or Terminated, or a dispatch iteration
\* quit or failed.
ServerReported(log) ==
    \E i \in 1..Len(log) :
        \/ log[i].kind = "state" /\ log[i].arg \in {"Ready", "Failed", "Terminated"}
        \/ log[i].kind = "iterate" /\ log[i].arg # "Success"

\* The connection could not be set up: the main loop or the context was not
\* created, or the connection was not started.
SetupFailed(log) ==
    \E i \in 1..Len(log) :
        log[i].kind \in {"mainloop_new", "context_new", "context_connect"}
            /\ log[i].arg = "failed"

\* The states the step from p to q observed.
Observed(p, q) ==
    {q.log[i].arg : i \in {j \in (Len(p.log) + 1)..Len(q.log) : q.log[j].kind = "state"}}

\* The handler is at work: play() was entered and has not returned.
Playing == pa.pc \notin {"idle", "done"}

----------------------------------------------------------------------------
(* Frame requests outstanding.                                             *)

\* The step is a handler that rendered.
Rendered == window' # window /\ Has(window'.fx, "render")

\* C29: with draw() called by unstall() and by the frame callback only, at
\* most one frame request is outstanding at any time, and stalled is false
\* exactly when one is outstanding; a handler other than the frame callback
\* renders only when none is outstanding.
C29_OneFrameOutstanding ==
    /\ [](frame_pending <= 1)
    /\ [](~window.stalled <=> frame_pending = 1)
    /\ [][(Rendered /\ op'.name # "frame") => (frame_pending = 0 /\ window.stalled)]_vars

\* unstall() was called while a frame request was outstanding and left it
\* the only one.
C29_Witness ==
    /\ op.name = "unstall"
    /\ Logged(window.fx, "unstall", "running")
    /\ ~Has(window.fx, "render")
    /\ frame_pending = 1
    /\ ~window.stalled

----------------------------------------------------------------------------
(* Who stops a ringing alarm.                                              *)

\* The stop button of the ringing view holds the logical point.
OnStopButton(point) ==
    rect_contains(stop_button_rect(window.ring_alarm.size, window.ring_alarm.scale),
                  Scaled(point, window.ring_alarm.scale))

\* C30: a ringing alarm is stopped only by the release of a touch that was
\* pressed on the stop button while the ringing view was shown and that is
\* released on the stop button.
C30_StoppedByOwnTouch ==
    [][(window.view = "RingAlarm" /\ window'.view # "RingAlarm")
          => /\ op'.name = "touch_up"
             /\ pressed.view = "RingAlarm"
             /\ OnStopButton(pressed.point)
             /\ OnStopButton(finger)]_vars

----------------------------------------------------------------------------
(* The audio session and the view on display.                              *)

\* The step is the handling of a Ring event.
RingHandled == op'.name = "ring" /\ Len(channel') < Len(channel)

\* The step is a handler that released an audio session.
SessionReleased ==
    /\ Has(window'.fx, "drop_sound")
    /\ window' # window \/ RingHandled

\* C31: when a handler has returned, an audio session is alive if and only
\* if the ringing view is on display; a session comes to life in the Ring
\* that puts the ringing view on display, and one is released exactly when
\* the ringing view is left or a later Ring puts its own in its place.
C31_SessionFollowsView ==
    /\ [](window.sound <=> window.view = "RingAlarm")
    /\ [][(~window.sound /\ window'.sound)
              => /\ RingHandled
                 /\ window.view # "RingAlarm" /\ window'.view = "RingAlarm"
                 /\ Logged(window'.fx, "play", "silent")]_vars
    /\ [][SessionReleased
              <=> \/ window.view = "RingAlarm" /\ window'.view # "RingAlarm"
                  \/ window.view = "RingAlarm" /\ RingHandled /\ Has(window'.fx, "play")]_vars

\* The stop button was tapped: the list is on display and the session gone.
C31_Witness ==
    /\ op.name = "touch_up"
    /\ window.view = "ListAlarms"
    /\ Has(window.fx, "drop_sound")
    /\ ~window.sound

----------------------------------------------------------------------------
(* The transitions between the views.                                      *)

\* The touch released by the step was pressed while `view` was on display,
\* on the button with the physical rectangle `rect` at `scale`, and is
\* released on it.
TappedOn(view, rect, scale) ==
    /\ op'.name = "touch_up" /\ touching /\ ~touching'
    /\ pressed.view = view
    /\ rect_contains(rect, Scaled(pressed.point, scale))
    /\ rect_contains(rect, Scaled(finger, scale))

\* C32: the view on display changes only from the list to the create view
\* by a tap on the new-alarm button, which resets the wheels; from the create
\* view to the list by a tap on back or on confirm; from any view to the
\* ringing view by a Ring whose playback started; from the ringing view to
\* the list by a tap on the stop button. AlarmsChanged, configuration,
\* resize and scale events leave the view alone, and every change of view
\* sets the dirty bit of the window.
C32_ViewTransitions ==
    /\ [][window'.view # window.view
              => LET la == window.list_alarms
                     ca == window.create_alarm
                     ra == window.ring_alarm
                 IN  /\ Has(window'.fx, "dirty")
                     /\ \/ /\ window.view = "ListAlarms" /\ window'.view = "CreateAlarm"
                            /\ TappedOn("ListAlarms", new_button_rect(la.size, la.scale),
                                        la.scale)
                            /\ \E wall \in WallTimes :
                                   window'.create_alarm.hour_carousel.scroll_offset
                                       = reset(ca, wall).hour_carousel.scroll_offset
                        \/ /\ window.view = "CreateAlarm" /\ window'.view = "ListAlarms"
                            /\ \/ TappedOn("CreateAlarm", back_button_rect(ca.size, ca.scale),
                                           ca.scale)
                               \/ TappedOn("CreateAlarm",
                                           confirm_button_rect(ca.size, ca.scale), ca.scale)
                        \/ /\ window'.view = "RingAlarm"
                            /\ RingHandled /\ Has(window'.fx, "play")
                        \/ /\ window.view = "RingAlarm" /\ window'.view = "ListAlarms"
                            /\ TappedOn("RingAlarm", stop_button_rect(ra.size, ra.scale),
                                        ra.scale)]_vars
    /\ [][op'.name \in {"set_alarms", "update_config", "set_size", "set_scale_factor"}
              => window'.view = window.view]_vars

----------------------------------------------------------------------------
(* Alarm lists received while another view is on display.                  *)

\* The step is the handling of an AlarmsChanged event.
ListHandled == op'.name = "set_alarms" /\ Len(channel') < Len(channel)

\* The step is a frame callback.
FrameHandled ==
    /\ op'.name = "frame"
    /\ window' # window \/ frame_pending' # frame_pending

\* The step rendered the list view.
ListRendered ==
    /\ window' # window
    /\ Has(window'.fx, "render")
    /\ window'.view = "ListAlarms"

\* C33: an AlarmsChanged handled while the create view or the ringing view
\* is on display puts its list in the place of the stored one and leaves the
\* list view unrendered and dirty; the stored list is the list received last
\* until the next one is handled, the list view stays dirty until it is
\* rendered, and the step that puts the list view back on display renders it
\* or leaves the window dirty with a frame callback to come, which renders it.
C33_ListKeptForLater ==
    /\ [][(ListHandled /\ window.view # "ListAlarms")
              => /\ window'.list_alarms.alarms = op'.msg.alarms
                 /\ window'.list_alarms.dirty
                 /\ window'.view = window.view]_vars
    /\ [][window'.list_alarms.alarms # window.list_alarms.alarms => ListHandled]_vars
    /\ [][(window.list_alarms.dirty /\ ~window'.list_alarms.dirty) => ListRendered]_vars
    /\ [][(window.view # "ListAlarms" /\ window'.view = "ListAlarms")
              => \/ ListRendered /\ ~window'.list_alarms.dirty
                 \/ window'.dirty /\ ~window'.stalled /\ frame_pending' > 0]_vars
    /\ [][(FrameHandled /\ window.view = "ListAlarms"
               /\ (window.dirty \/ window.list_alarms.dirty))
              => ListRendered /\ ~window'.list_alarms.dirty]_vars

\* A list that differs from the stored one was handled during a ring: it is
\* stored, and the list view is dirty.
C33_Witness ==
    /\ op.name = "set_alarms"
    /\ window.view = "RingAlarm"
    /\ op.msg.alarms = <<A1, A2>>
    /\ first_handled.alarms # <<A1, A2>>
    /\ window.list_alarms.alarms = <<A1, A2>>
    /\ window.list_alarms.dirty

----------------------------------------------------------------------------
(* The listener's loop once the subscriber is constructed.                 *)

\* The subscriber was constructed and the task is in its loop.
InWorkerLoop == worker \in {"next", "polling"}

\* C34: once the subscriber is constructed the worker stays in its loop and
\* keeps its sender, so the termination flag is never set and the presentation
\* loop never ends; when the stream has ended the worker goes on polling and
\* the channel gets no further message.
C34_WorkerNeverLeaves ==
    /\ [](InWorkerLoop => (tx_alive /\ ~terminated /\ loop_pc = "dispatch"))
    /\ [][InWorkerLoop => (worker' \in {"next", "polling"} /\ tx_alive')]_vars
    /\ [][worker = "polling"
              => /\ worker' = "polling"
                 /\ Len(channel') <= Len(channel)
                 /\ ~terminated']_vars

\* The stream ended with an event still in flight; the loop handled it and
\* goes on, the channel open and empty.
C34_Witness ==
    /\ worker = "polling"
    /\ op.name = "ring"
    /\ channel = <<>>
    /\ tx_alive /\ ~terminated
    /\ loop_pc = "dispatch"

----------------------------------------------------------------------------
(* ScrollVelocity: the baseline belongs to a velocity.                     *)

\* C35: in every state a sequence of set() and apply() calls reaches, a
\* recorded tick baseline implies a velocity other than 0: last_tick is None
\* whenever the velocity is 0.
C35_BaselineImpliesVelocity ==
    sv.v.last_tick.some => sv.v.velocity # 0

\* set(0) on a velocity that had a baseline cleared it, and an apply() that
\* found a baseline dropped the last of a velocity together with it.
C35_Witness ==
    /\ sv.before.last_tick.some
    /\ sv.before.velocity # 0
    /\ sv.v = ScrollVelocityDefault
    /\ \/ sv.op = "set" /\ sv.v0 = 0
       \/ sv.op = "apply" /\ sv.now > sv.before.last_tick.val

----------------------------------------------------------------------------
(* Rendering comes to rest.                                                *)

\* No event but the frame callback is handled in this step.
OnlyFrames ==
    \/ op'.name = "frame"
    \/ /\ op' = op /\ window' = window /\ frame_pending' = frame_pending
       /\ touching' = touching /\ finger' = finger

\* The window is stalled, nothing is dirty and no frame is outstanding.
AtRest == window.stalled /\ ~dirty(window) /\ frame_pending = 0

\* C36 as stated, of the states a run ends in: with no frame callback
\* outstanding no handler runs again unless an event arrives, so by the claim
\* the window is then stalled with nothing dirty, unless a handler has
\* panicked.
C36_RenderingComesToRest ==
    (Dispatching /\ frame_pending = 0) => AtRest

\* C36 as amended: when from some point on no touch, resize or scale event is
\* handled and every frame requested is delivered, a velocity interval after
\* the draw that requested it, a window that has been drawn comes to be
\* stalled with nothing dirty and stays so, unless a handler has panicked;
\* the freshly constructed window is stalled and dirty, and stays so until a
\* handler draws it.
C36_RenderingComesToRestOnceDrawn ==
    <>[][OnlyFrames]_vars
        => <>[]((window.initial_draw_done /\ ~window.panicked) => AtRest)

\* The hour wheel was flicked and has come to rest on another item than the
\* one the view was opened with.
C36_Witness ==
    /\ AtRest
    /\ op.name = "frame"
    /\ window.view = "CreateAlarm"
    /\ window.initial_draw_done
    /\ window.scale = 1
    /\ ~touching
    /\ ~is_moving(window.create_alarm.hour_carousel.velocity)
    /\ window.create_alarm.hour_carousel.scroll_offset
          # reset(CreateAlarmDefault, WallTime(19723, 8, 0, 0)).hour_carousel.scroll_offset
    /\ window.create_alarm.hour_carousel.scroll_offset
          = rounded_offset(window.create_alarm.hour_carousel)

----------------------------------------------------------------------------
(* The alarm list under the finger.                                        *)

\* A touch-down is handled by the list view in this step.
ListPressed ==
    op'.name = "touch_down" /\ ~touching /\ touching' /\ window.view = "ListAlarms"

\* C38: a touch-down in the list view selects an alarm only when that alarm
\* is drawn at the touched point, so none above the topmost alarm and none of
\* an empty list, and it never fails.
C38_SelectsAlarmInRow ==
    [][ListPressed
          => /\ ~window'.panicked
             /\ LET action == window'.list_alarms.touch_state.action
                IN  action.tag = "AlarmTap"
                        => /\ pressed'.row # 0
                           /\ window.list_alarms.alarms[pressed'.row].id = action.id]_vars

\* A touch-up is handled by the list view in this step.
ListReleased ==
    /\ op'.name = "touch_up" /\ window.view = "ListAlarms"
    /\ n_inputs' # n_inputs /\ channel' = channel

\* C37: a touch-up in the list view issues a removal request exactly when the
\* touch began on the delete icon of an alarm and never got farther from there
\* than a tap may, none once it has become a drag, and one at most; a second
\* touch-up of the same touch issues none.
C37_RemovalOnDeleteTap ==
    [][ListReleased
          => /\ Count(window'.fx, "remove") <= 1
             /\ Has(window'.fx, "remove")
                   <=> /\ op'.prior # "touch_up"
                       /\ pressed.view = "ListAlarms"
                       /\ pressed.delete
                       /\ ~pressed.far]_vars

----------------------------------------------------------------------------
(* The list's scroll offset.                                               *)

InRange(la) == 0 <= la.scroll_offset /\ la.scroll_offset <= max_scroll_offset(la) * FP

\* The list view was drawn in this step.
ListDrawn == window' # window /\ window'.view = "ListAlarms" /\ Has(window'.fx, "render")

\* A touch motion is handled by the list view in this step.
ListMoved == op'.name = "touch_motion" /\ finger' # finger /\ window.view = "ListAlarms"

\* The motion scrolls the list: the touch is on an alarm or a drag already,
\* and the finger is farther from where it was pressed than a tap may be.
ListScrolled ==
    /\ ListMoved
    /\ window.list_alarms.touch_state.action.tag \in {"AlarmTap", "AlarmDrag"}
    /\ LET dx == (finger'.x - pressed.point.x) * window.list_alarms.scale
           dy == (finger'.y - pressed.point.y) * window.list_alarms.scale
       IN  dx * dx + dy * dy > config.input.max_tap_distance

\* Where the offset was cut to another value than draw() on a frame callback,
\* or the scrolling touch_motion(), had computed, the velocity is 0 and the
\* view dirty (or drawn again by the same handler).
ClampResets ==
    LET la == window.list_alarms
        after == window'.list_alarms
        drawn == apply(la.velocity, window.render_config.input_config,
                       la.scroll_offset, clock + 1).scroll_offset
        moved == la.scroll_offset + (finger'.y - finger.y) * la.scale * FP
        cut == /\ after.velocity = ScrollVelocityDefault
               /\ after.dirty \/ (ListMoved /\ Has(window'.fx, "render"))
    IN  /\ (op'.name = "frame" /\ ListDrawn /\ window.view = "ListAlarms"
              /\ after.scroll_offset # drawn) => cut
        /\ (ListScrolled /\ after.scroll_offset # moved) => cut

\* C39 as stated: after every draw() and every touch_motion() of the list
\* view the scroll offset lies in [0, max_scroll_offset], and where the clamp
\* changed the offset the velocity is 0 and the view dirty.
C39_OffsetClamped ==
    [][(ListDrawn \/ ListMoved) => (InRange(window'.list_alarms) /\ ClampResets)]_vars

\* C39 as amended: the same after every draw() and every touch_motion() that
\* scrolls the list; a touch_motion() that returns before it scrolls leaves
\* the offset as it found it.
C39_OffsetClampedWhereScrolled ==
    /\ [][(ListDrawn \/ ListScrolled)
              => (InRange(window'.list_alarms) /\ ClampResets)]_vars
    /\ [][(ListMoved /\ ~ListScrolled /\ ~Has(window'.fx, "render"))
              => window'.list_alarms.scroll_offset = window.list_alarms.scroll_offset]_vars

\* The list was dragged down and then up past its start: the clamp cut the
\* offset to 0, dropped the velocity and marked the view dirty.
C39_Witness ==
    /\ op.name = "touch_motion"
    /\ window.view = "ListAlarms"
    /\ window.list_alarms.touch_state.action.tag = "AlarmDrag"
    /\ finger.y < pressed.point.y - 4
    /\ max_scroll_offset(window.list_alarms) > 0
    /\ window.list_alarms.scroll_offset = 0
    /\ window.list_alarms.velocity = ScrollVelocityDefault
    /\ window.list_alarms.dirty

----------------------------------------------------------------------------
(* The time the create view opens with.                                    *)

\* The second of the day the wheels stand for.
Selected(ca) == value(ca.hour_carousel) * 3600 + value(ca.minute_carousel) * 60

\* C40: after reset() at the local time now the wheels stand for a time of day
\* that is later than now and at most 5 minutes later, around midnight as
\* well, and confirming at that very time stages an alarm that lies in the
\* future, at most 5 minutes ahead.
C40_ResetWithinFiveMinutes ==
    /\ sel.op \in {"reset", "confirm_reset"}
          => LET ahead == (Selected(sel.ca) - SecondOfDay(sel.now)) % 86400
             IN  ahead > 0 /\ ahead <= 5 * 60
    /\ sel.op = "confirm_reset"
          => /\ Kinds(sel.fx) = <<"add">>
             /\ sel.fx[1].arg.unix_time > UnixTime(sel.now)
             /\ sel.fx[1].arg.unix_time <= UnixTime(sel.now) + 5 * 60

\* The view opened at 23:57:01 and confirmed: the wheels stand at 00:00 and
\* the alarm is staged for the next day's first second.
C40_Witness ==
    /\ sel.op = "confirm_reset"
    /\ sel.now = WallTime(19723, 23, 57, 1)
    /\ Selected(sel.ca) = 0
    /\ Kinds(sel.fx) = <<"add">>
    /\ sel.fx[1].arg.unix_time = UnixTime(WallTime(19724, 0, 0, 0))

====
